---- MODULE Spec2Model ----
(***************************************************************************)
(* Model of the AudioStreamer class (src/unnamed/part_001, lines 360-589): *)
(* the streaming audio playback scheduler.                                 *)
(*                                                                         *)
(* Time is counted in sample periods of the 24000 Hz output rate, so that  *)
(* the duration of an AudioBuffer of n samples is exactly n and            *)
(* 1 ms = 24 units.  The code holds its times as doubles, in seconds: the  *)
(* cursor is kept as that double as well (scheduledSec), and the           *)
(* comparisons and the timer delay of the scheduling pass are computed on  *)
(* the doubles, with the rounding of every operation.  A segment (a        *)
(* Float32Array slice) is represented by the range of positions it holds   *)
(* in the stream of all normalized samples submitted so far: [first, len]. *)
(***************************************************************************)
EXTENDS Integers, Sequences, FiniteSets, Bags, TLC

\* ------------------------------------------------------------ bounds
MaxTime == 5           \* horizon of the output clock, in grid steps of 100 ms
MaxCalls == 3          \* calls of addPCM16, stop, resume and complete in one behaviour
LateTime == 1          \* last grid step at which a call arrives, where callbacks may run late
LateCalls == 2         \* calls in one behaviour of the submit specification
SuspendCalls == 3      \* calls in one behaviour of the suspension specification
FairTime == 1          \* last grid step at which a call arrives while the context may be suspended
MaxTaps == 2           \* calls of addWorklet in one behaviour
MaxTapSources == 2     \* segments scheduled while taps are registered
MaxTapMessages == 1    \* messages posted by worklet nodes
MaxWsCalls == 3        \* calls of connect() and disconnect() on the WebSocket client
MaxRecCalls == 3       \* calls of start() and stop() on the AudioRecorder
MaxPttCalls == 4       \* calls of startRecording() and stopRecording() of the push-to-talk script
MaxPttData == 2        \* chunks the sox processes write to stdout in one behaviour
MaxPttSignals == 1     \* SIGINT and SIGTERM signals the push-to-talk script receives
MaxPingCalls == 3      \* calls of setTarget() and stopPinging() on the SpatialAudioManager
MaxPingBuffers == 4    \* ping buffers scheduled on the player node in one behaviour
MaxLogCalls == 4       \* calls of log() on the logger store
MaxLogSets == 1        \* calls of setMaxLogs() and clearLogs() on the logger store
MaxMaxLogs == 3        \* largest value given to setMaxLogs()
MaxProcessCalls == 5   \* calls of process() on the recording worklet
MaxSuspends == 1       \* times the audio context is suspended in one behaviour
MaxIdle == 2           \* grid steps of wall-clock time that pass while the context is suspended
ClockLagMs == 50       \* ms by which context.currentTime may be behind the clock of the timers
ClockStepMs == 10      \* ms by which context.currentTime moves on at once
MaxClockSteps == 2     \* such moves of context.currentTime within one call or callback

\* ------------------------------------------------- program constants
sampleRate == 24000            \* AudioStreamer.sampleRate
bufferSize == 7680             \* AudioStreamer.bufferSize
InitialBufferMs == 100         \* initialBufferTime = 0.1 s
ScheduleAheadMs == 200         \* SCHEDULE_AHEAD_TIME = 0.2 s
PollMs == 100                  \* setInterval(..., 100)
TimeoutMarginMs == 50          \* Math.max(0, nextCheckTime - 50)
FadeMs == 100                  \* linearRampToValueAtTime(0, currentTime + 0.1)
GainSwapMs == 200              \* setTimeout(() => { ... createGain() ... }, 200)
Int16Scale == 32768            \* int16 / 32768 and float32Array[i] * 32768
DefaultMaxLogs == 100
BufferLength == 2048           \* new Int16Array(2048) of the recording worklet
GainOne == 1000                \* the gain value 1, in thousandths

Ms(x) == (x * sampleRate) \div 1000

\* A stream that starts with no initial buffer.
NoInitialBuffer == Ms(0)

initialBufferTime == Ms(InitialBufferMs)
SCHEDULE_AHEAD_TIME == Ms(ScheduleAheadMs)

\* The grid of the clock: the period of the polling interval (100 ms). The
\* calls of the streamer's methods arrive at grid points; callbacks run on or
\* off the grid.
Step == Ms(PollMs)
Horizon == MaxTime * Step

\* The timers of setTimeout and setInterval count wall-clock milliseconds,
\* context.currentTime advances in render quanta: the callback of a timer
\* armed at clock value a with delay d may read a clock value that is below
\* a + d, by up to ClockLag.
ClockLag == Ms(ClockLagMs)

\* context.currentTime is written by the rendering thread and read anew at
\* every use: within one call or callback a later read may return a later
\* value. ClockSteps: by how much the clock can have moved on since the call
\* began.
ClockSteps == {k * Ms(ClockStepMs) : k \in 0..MaxClockSteps}

\* The most the clock moves on within one call or callback.
CallSpan == MaxClockSteps * Ms(ClockStepMs)

\* Byte lengths of the chunks handed to addPCM16: 100 ms of audio (less than a
\* segment) and one full segment.
ChunkBytes == {4800, 15360}

Max(a, b) == IF a >= b THEN a ELSE b

VARIABLES
  now,                   \* context.currentTime
  context,               \* the AudioContext: its state, the resume() calls waiting for it
  audioQueue,            \* this.audioQueue: sequence of segments
  isPlaying,             \* this.isPlaying
  isStreamComplete,      \* this.isStreamComplete
  checkInterval,         \* this.checkInterval # null
  intervalDue,           \* next firing time of the polling interval
  scheduledTime,         \* this.scheduledTime, in sample periods
  scheduledSec,          \* this.scheduledTime, the double it is
  timeouts,              \* pending setTimeout(() => scheduleNextBuffer()): bag of [due, epoch]
  sources,               \* every AudioBufferSourceNode handed to source.start, in order
  endOfQueueAudioSource, \* index in sources, 0 for null
  submitted,             \* number of samples submitted so far
  chunks,                \* sample count of every chunk submitted, in order
  enqueued,              \* length of every segment pushed on audioQueue, in order
  stops, resumes, completes,   \* calls of stop(), resume(), complete() so far
  lastCall,              \* the method called last: "none", "add", "stop", "resume", "complete"
  stopped,               \* stop() was called and addPCM16 not since
  passAfterStop,         \* a timer callback ran since that stop()
  completions,           \* every invocation of onComplete, in order
  gainNode,              \* this.gainNode: the number of the GainNode in use, 0 for the first
  gainEvents,            \* the automation events of this.gainNode.gain, in timeline order
  gainTimers,            \* pending setTimeout(..., 200) of stop(): bag of [due]
  deviceFailed,          \* the output device has failed: createBuffer throws
  uncaught,              \* exceptions that left addPCM16 or a timer callback
  bytesIn,               \* byte length of every chunk submitted, in order
  conv,                  \* one 16-bit sample on its way through the two conversions
  streams,               \* streams started so far: addPCM16 calls that found isPlaying false
  registeredWorklets,    \* the registry: per context and worklet name, the WorkletGraph
  loading,               \* addWorklet calls waiting in `await addModule`: bag of [ctx, name]
  taps,                  \* every addWorklet call, in order: [streamer, ctx, name]
  tapSources,            \* segments scheduled by the streamers of the tap specification
  delivered,             \* every message of a worklet node handed to the handlers
  wsStatus,              \* WebSocketClient._status
  ws,                    \* WebSocketClient.ws: index in sockets, 0 for null
  wsModel,               \* WebSocketClient.model and config: the connect call that stored them
  sockets,               \* every WebSocket the client has created, in order
  emitted,               \* every event the client has emitted, in order
  wsCalls,               \* calls of connect() and disconnect(), in order
  recorder,              \* the AudioRecorder: its fields, its pending starts and its media streams
  ptt,                   \* the push-to-talk script: isRecording, recordProcess, the sox processes, the messages sent
  ping,                  \* the SpatialAudioManager: isPlayingPing, currentPingTask, the buffers and the work items
  logger,                \* useLoggerStore: maxLogs, logs, and the calls made
  worklet                \* the AudioProcessingWorklet: buffer, bufferWriteIndex, the chunks posted

vars == <<now, context, audioQueue, isPlaying, isStreamComplete, checkInterval, intervalDue,
          scheduledTime, scheduledSec, timeouts, sources, endOfQueueAudioSource, submitted,
          chunks, enqueued, stops, resumes, completes, lastCall, stopped,
          passAfterStop, completions, gainNode, gainEvents, gainTimers,
          deviceFailed, uncaught, bytesIn, conv, streams,
          registeredWorklets, loading, taps, tapSources, delivered,
          wsStatus, ws, wsModel, sockets, emitted, wsCalls,
          recorder, ptt, ping, logger, worklet>>

\* The state outside the streamer's scheduling fields.
gainVars == <<gainNode, gainEvents, gainTimers>>
envVars == <<deviceFailed, conv>>
tapVars == <<registeredWorklets, loading, taps, tapSources, delivered>>
tapRest == <<loading, taps, delivered>>
wsVars == <<wsStatus, ws, wsModel, sockets, emitted, wsCalls>>
auxVars == <<recorder, ptt, ping, logger, worklet>>

\* The fields of the streamer and the histories of its calls.
streamerVars ==
  <<now, context, audioQueue, isPlaying, isStreamComplete, checkInterval, intervalDue,
    scheduledTime, scheduledSec, timeouts, sources, endOfQueueAudioSource, submitted,
    chunks, enqueued, stops, resumes, completes, lastCall, stopped,
    passAfterStop, completions, gainVars, deviceFailed, uncaught, bytesIn, streams>>

\* Three streamers: 1 and 2 are constructed on the same AudioContext, 3 on
\* another one.
Streamers == 1..3
ContextOf(s) == IF s = 3 THEN 2 ELSE 1

\* The keys of the registry and the worklet names registered.
Keys == 1..3
Names == {"vumeter-out", "tap"}

\* A registry keyed by the streamer.
RegistryKeyPerStreamer(s) == s

\* registeredWorklets.get(this.context): the key under which streamer s finds
\* its record of worklets.
RegistryKey(s) == ContextOf(s)

\* No WorkletGraph under a name; exists: the record has the name, node: the
\* AudioWorkletNode is in the record, made: the nodes created for the name,
\* wired: node.port.onmessage hands the messages to the handlers.
NoGraph == [exists |-> FALSE, handlers |-> <<>>, node |-> FALSE, made |-> 0, wired |-> FALSE]

InitTaps ==
  /\ registeredWorklets = [c \in Keys |-> [n \in Names |-> NoGraph]]
  /\ loading = EmptyBag
  /\ taps = <<>>
  /\ tapSources = <<>>
  /\ delivered = <<>>

\* The WebSocket client after construction.
InitClient ==
  /\ wsStatus = "disconnected"
  /\ ws = 0
  /\ wsModel = 0
  /\ sockets = <<>>
  /\ emitted = <<>>
  /\ wsCalls = <<>>

\* The AudioRecorder after construction. stream, source: the number of the
\* MediaStream and of the MediaStreamAudioSourceNode held, 0 for undefined;
\* starting: the number of the start() call whose promise this.starting
\* holds, 0 for null; tasks: per start() call, where its executor stands and
\* how many handleStop callbacks wait on its promise (deferred: a stop() found
\* it pending; vuContext: the context its vu meter is created on); media:
\* every MediaStream acquired; srcs: every source node created; calls: the
\* calls made; audioContext: the start() call whose AudioContext
\* this.audioContext holds; jobs: the handleStop reactions queued by
\* resolve(); modules: per context, the worklet modules added to it.
InitRecorder ==
  recorder = [stream |-> 0, source |-> 0, recordingWorklet |-> FALSE,
              vuWorklet |-> FALSE, recording |-> FALSE, starting |-> 0,
              tasks |-> <<>>, media |-> <<>>, srcs |-> <<>>, calls |-> <<>>,
              audioContext |-> 0, jobs |-> <<>>,
              modules |-> [c \in 1..MaxRecCalls |-> [recording |-> "none", vu |-> "none"]]]

\* The push-to-talk script when it starts. recordProcess: the number of the sox
\* process referred to, 0 for null; procs: every process spawned, "running",
\* "killed" (kill() sent, exit event not yet delivered), "exited" or "failed";
\* sent: the types of the messages sent on the socket, in order; open: the
\* readyState of the socket is OPEN; closed: the socket has left OPEN or
\* close() was called on it; signals: the signals handled; exited:
\* process.exit(0) was called.
InitPtt ==
  ptt = [isRecording |-> FALSE, recordProcess |-> 0, procs |-> <<>>,
         sent |-> <<>>, calls |-> <<>>, open |-> FALSE, chunks |-> 0,
         closed |-> FALSE, signals |-> 0, exited |-> FALSE]

\* The SpatialAudioManager once set up. currentPingTask: the number of the
\* work item referred to, 0 for nil; buffers: every buffer scheduled on the
\* player node, "scheduled", "played" or "stopped" (its completion handler is
\* due) or "handled", with the value of isPlayingPing when it was scheduled;
\* items: every next-ping work item, "pending", "cancelled" or "executed";
\* handler: the buffer whose completion handler is between its cancel and its
\* assignment of currentPingTask, 0 for none; main: the call of which the main
\* thread is between the cancel and the clearing of currentPingTask, "idle"
\* for none; calls: the calls made.
InitPing ==
  ping = [isPlayingPing |-> FALSE, currentPingTask |-> 0, buffers |-> <<>>,
          items |-> <<>>, handler |-> 0, main |-> "idle", calls |-> 0]

\* The logger store as created. logged, sets: the calls of log() and of
\* setMaxLogs() or clearLogs() made.
InitLogger ==
  logger = [maxLogs |-> DefaultMaxLogs, logs |-> <<>>, logged |-> 0, sets |-> 0]

\* The recording worklet as constructed. buffer holds the Int16Array up to the
\* last element ever written; the elements after it are 0. posted: the chunks
\* posted on the port; fed: the samples given to process(), in input order.
InitWorklet ==
  worklet = [buffer |-> <<>>, bufferWriteIndex |-> 0, posted |-> <<>>,
             fed |-> <<>>, calls |-> 0]

\* The sample before any conversion.
Raw(v) == [v |-> v, stage |-> "int16", float |-> 0, back |-> 0]

\* The AudioContext when the streamer is constructed on it: running.
\* state: what context.state reads; rendering: the rendering thread runs and
\* the clock with it; resuming: the resume() calls that wait in `await this.context.resume()`;
\* suspends: the times the context was suspended; idle: the grid steps of
\* wall-clock time that have passed while it was suspended.
InitContext ==
  context = [state |-> "running", rendering |-> TRUE, resuming |-> 0,
             suspends |-> 0, idle |-> 0]

InitStreamer ==
  /\ now = 0
  /\ InitContext
  /\ audioQueue = <<>>
  /\ isPlaying = FALSE
  /\ isStreamComplete = FALSE
  /\ checkInterval = FALSE
  /\ intervalDue = 0
  /\ scheduledTime = 0
  /\ scheduledSec = <<0, 0, 0>>
  /\ timeouts = EmptyBag
  /\ sources = <<>>
  /\ endOfQueueAudioSource = 0
  /\ submitted = 0
  /\ chunks = <<>>
  /\ enqueued = <<>>
  /\ stops = 0
  /\ resumes = 0
  /\ completes = 0
  /\ lastCall = "none"
  /\ stopped = FALSE
  /\ passAfterStop = FALSE
  /\ completions = <<>>
  /\ gainNode = 0
  /\ gainEvents = <<>>
  /\ gainTimers = EmptyBag
  /\ deviceFailed = FALSE
  /\ uncaught = 0
  /\ bytesIn = <<>>
  /\ streams = 0
  /\ InitTaps
  /\ InitClient
  /\ InitRecorder
  /\ InitPtt
  /\ InitPing
  /\ InitLogger
  /\ InitWorklet

Init == InitStreamer /\ conv = Raw(0)

\* ------------------------------------------------------- pure helpers

\* A conversion that counts a trailing odd byte as a sample.
ProcessPCM16ChunkRoundUp(bytes) == (bytes + 1) \div 2

\* _processPCM16Chunk: the number of samples of the Float32Array made from a
\* chunk of `bytes` bytes (new Float32Array(chunk.length / 2): a fractional
\* length is truncated). The loop's read past the end of an odd chunk throws
\* inside the try block and is caught there.
ProcessPCM16Chunk(bytes) == bytes \div 2

\* Values of a Float32Array in [-1, 1] are counted in units of 2^-15, which
\* float32 holds exactly.
Float32Unit == 2^15

\* The quotient a / b (b > 0) rounded to the nearest unit, ties to even.
RoundHalfEven(a, b) ==
  LET q == a \div b
      r == a % b
  IN IF 2 * r < b THEN q
     ELSE IF 2 * r > b THEN q + 1
     ELSE IF q % 2 = 0 THEN q ELSE q + 1

\* Normalization by 32767.
NormalizeBy32767(v) == RoundHalfEven(v * Float32Unit, Int16Scale - 1)

\* float32Array[i] = int16 / 32768
NormalizeSample(v) == RoundHalfEven(v * Float32Unit, Int16Scale)

\* The quotient a / b (b > 0) with the fraction dropped.
Trunc(a, b) == IF a >= 0 THEN a \div b ELSE -((-a) \div b)

\* The store of a number into an Int16Array: modulo 2^16, into [-32768, 32767].
ToInt16(n) == ((n + Int16Scale) % (2 * Int16Scale)) - Int16Scale

\* this.buffer[...] = float32Array[i] * 32768, buffer an Int16Array
Requantize(f) == ToInt16(Trunc(f * Int16Scale, Float32Unit))

\* ------------------------------------------------------------ doubles

\* A double d, 0 <= d < 2^15, is held as the three digits to the base 2^30 of
\* d * 2^75, the most significant first: every double from 2^-22 up has all
\* its 53 bits in them.
Base == 1073741824
HalfBase == 32768

\* x < y
BigLess(x, y) ==
  IF x[1] # y[1] THEN x[1] < y[1]
  ELSE IF x[2] # y[2] THEN x[2] < y[2]
  ELSE x[3] < y[3]

\* The exact sum, difference (x >= y) and product by a whole number up to 2^15.
BigAdd(x, y) ==
  LET s3 == x[3] + y[3]
      s2 == x[2] + y[2] + (IF s3 >= Base THEN 1 ELSE 0)
      s1 == x[1] + y[1] + (IF s2 >= Base THEN 1 ELSE 0)
  IN <<s1, s2 % Base, s3 % Base>>

BigSub(x, y) ==
  LET d3 == x[3] - y[3]
      d2 == x[2] - y[2] - (IF d3 < 0 THEN 1 ELSE 0)
      d1 == x[1] - y[1] - (IF d2 < 0 THEN 1 ELSE 0)
  IN <<d1, d2 % Base, d3 % Base>>

BigTimes(x, k) ==
  LET l3 == (x[3] % HalfBase) * k
      h3 == (x[3] \div HalfBase) * k + l3 \div HalfBase
      l2 == (x[2] % HalfBase) * k + h3 \div HalfBase
      h2 == (x[2] \div HalfBase) * k + l2 \div HalfBase
      l1 == (x[1] % HalfBase) * k + h2 \div HalfBase
      h1 == (x[1] \div HalfBase) * k + l1 \div HalfBase
  IN <<h1 * HalfBase + (l1 % HalfBase),
       (h2 % HalfBase) * HalfBase + (l2 % HalfBase),
       (h3 % HalfBase) * HalfBase + (l3 % HalfBase)>>

\* The quotient n / d of two whole numbers cut off after the last digit;
\* inexact: something was cut off.
Quotient(n, d) ==
  LET r0 == n % d
      r1 == (r0 * HalfBase) % d
      r2 == (r1 * HalfBase) % d
      r3 == (r2 * HalfBase) % d
      r4 == (r3 * HalfBase) % d
      r5 == (r4 * HalfBase) % d
  IN [q |-> <<(n \div d) * HalfBase + (r0 * HalfBase) \div d,
              ((r1 * HalfBase) \div d) * HalfBase + (r2 * HalfBase) \div d,
              ((r3 * HalfBase) \div d) * HalfBase + (r4 * HalfBase) \div d>>,
      inexact |-> r5 # 0]

\* The number of bits of a digit.
BitLength8(v) ==
  IF v < 16
    THEN IF v < 4 THEN (IF v < 2 THEN v ELSE 2) ELSE (IF v < 8 THEN 3 ELSE 4)
    ELSE IF v < 64 THEN (IF v < 32 THEN 5 ELSE 6) ELSE (IF v < 128 THEN 7 ELSE 8)

BitLength15(v) == IF v < 256 THEN BitLength8(v) ELSE 8 + BitLength8(v \div 256)

BitLength(v) == IF v < HalfBase THEN BitLength15(v) ELSE 15 + BitLength15(v \div HalfBase)

\* The number of bits of x * 2^75.
Bits(x) ==
  IF x[1] # 0 THEN 60 + BitLength(x[1])
  ELSE IF x[2] # 0 THEN 30 + BitLength(x[2])
  ELSE BitLength(x[3])

\* x rounded to the nearest number of 53 bits, a tie to the even one, as every
\* operation on doubles rounds its exact result.
Round53(x, inexact) ==
  LET drop == Bits(x) - 53
  IN IF drop <= 0 THEN x
     ELSE IF drop <= 30
       THEN LET b == 2^drop
                low == x[3] % b
                odd == IF drop = 30 THEN x[2] % 2 = 1 ELSE (x[3] \div b) % 2 = 1
                up == low * 2 > b \/ (low * 2 = b /\ (inexact \/ odd))
            IN IF up THEN BigAdd(<<x[1], x[2], x[3] - low>>, <<0, 0, b>>)
                     ELSE <<x[1], x[2], x[3] - low>>
       ELSE LET b == 2^(drop - 30)
                low == x[2] % b
                odd == (x[2] \div b) % 2 = 1
                rest == x[3] # 0 \/ inexact
                up == low * 2 > b \/ (low * 2 = b /\ (rest \/ odd))
            IN IF up THEN BigAdd(<<x[1], x[2] - low, 0>>, <<0, b, 0>>)
                     ELSE <<x[1], x[2] - low, 0>>

\* n / this.sampleRate: n sample periods in seconds, as a double. (The
\* exact result is bound by a quantifier, here and below, so that it is
\* computed once.)
Sec(n) == CHOOSE r \in {Round53(d.q, d.inexact) : d \in {Quotient(n, sampleRate)}} : TRUE

\* x + y, x - y (x >= y) and x * k on doubles.
Plus(x, y) == CHOOSE r \in {Round53(e, FALSE) : e \in {BigAdd(x, y)}} : TRUE
Minus(x, y) == CHOOSE r \in {Round53(e, FALSE) : e \in {BigSub(x, y)}} : TRUE
Times(x, k) == CHOOSE r \in {Round53(e, FALSE) : e \in {BigTimes(x, k)}} : TRUE

\* The whole number k as a double, and the whole part of a double.
Whole(k) == <<k * HalfBase, 0, 0>>
Floor(x) == x[1] \div HalfBase

\* ------------------------------------------------------------ segments

\* One segment: `len` samples from position `first` of the submitted stream,
\* submitted at time `sub`.
Segment(first, len, sub) == [first |-> first, len |-> len, sub |-> sub]

\* addPCM16's slicing of processingBuffer (n samples from position first):
\* full segments of bufferSize while at least bufferSize samples remain, then
\* the rest, if not empty, as a segment of its own.
RECURSIVE SliceChunk(_, _, _)
SliceChunk(first, n, sub) ==
  IF n >= bufferSize
    THEN <<Segment(first, bufferSize, sub)>>
           \o SliceChunk(first + bufferSize, n - bufferSize, sub)
    ELSE IF n > 0 THEN <<Segment(first, n, sub)>> ELSE <<>>

\* audioQueue.pop() in place of shift(): the newest element is taken.
ShiftLast(q) == [head |-> q[Len(q)], rest |-> SubSeq(q, 1, Len(q) - 1)]

\* audioQueue.shift(): the element taken and the queue left.
Shift(q) == [head |-> Head(q), rest |-> Tail(q)]

\* The start time without the clamp to the clock.
StartTimeUnclamped(cursor, t) == cursor

\* const startTime = Math.max(this.scheduledTime, this.context.currentTime)
StartTime(cursor, t) == Max(cursor, t)

\* The same maximum, of the two doubles.
StartSec(cursor, t) == IF BigLess(cursor, t) THEN t ELSE cursor

\* The lookahead window with no limit.
WindowAlwaysOpen(cursor, t) == TRUE

\* this.scheduledTime < this.context.currentTime + SCHEDULE_AHEAD_TIME, on
\* the doubles cursor and t.
WindowOpen(cursor, t) == BigLess(cursor, Plus(t, Sec(SCHEDULE_AHEAD_TIME)))

\* The AudioStreamer whose fields are modelled is streamer 1 of the registry.
ThisStreamer == 1

\* The names of the record of streamer s that have their node.
Connected(reg, s) == {n \in Names : reg[RegistryKey(s)][n].node}

\* The registry after a source of streamer s was wired (lines 505-520): every
\* node of the record has its port hand the messages to the handlers.
Wired(reg, s) ==
  [reg EXCEPT ![RegistryKey(s)] =
     [n \in Names |-> IF n \in Connected(reg, s) THEN [@[n] EXCEPT !.wired = TRUE] ELSE @[n]]]

\* The sources started by the streamers, after one more of streamer s: it is
\* connected to every node of the record (to none when there is no record).
Tapped(tapped, reg, s) ==
  Append(tapped, [streamer |-> s, ctx |-> ContextOf(s), nodes |-> Connected(reg, s)])

\* The values a read of context.currentTime can return in a call or callback
\* that began at clock value `now`, after a read that returned prev: the
\* clock does not go back, and it stands still while the context does not
\* render.
ClockReads(prev) ==
  IF context.rendering
    THEN {r \in {now + d : d \in ClockSteps} : r >= prev}
    ELSE {prev}

\* The fields of the streamer a scheduling pass reads and writes and the
\* registry; t: the value context.currentTime returned last; threw: the pass
\* was left by an exception.
PassState ==
  [q |-> audioQueue, cursor |-> scheduledTime, sec |-> scheduledSec,
   t |-> now, srcs |-> sources,
   eoq |-> endOfQueueAudioSource, playing |-> isPlaying,
   interval |-> checkInterval, idue |-> intervalDue, tos |-> timeouts,
   worklets |-> registeredWorklets, tapped |-> tapSources,
   threw |-> FALSE]

\* if (this.endOfQueueAudioSource) this.endOfQueueAudioSource.onended = null
Detach(srcs, eoq) ==
  IF eoq # 0 THEN [srcs EXCEPT ![eoq].onended = FALSE] ELSE srcs

\* The body of the while loop of scheduleNextBuffer (lines 482-524) on the
\* head of the queue, where line 522 reads the clock value t. at: that value;
\* cursor, csec: this.scheduledTime when the segment was taken.
ScheduleHead(st, t) ==
  LET sh == Shift(st.q)
      seg == sh.head
      last == Len(sh.rest) = 0
      detached == IF last THEN Detach(st.srcs, st.eoq) ELSE st.srcs
      startTime == StartTime(st.cursor, t)
      source == [first |-> seg.first, len |-> seg.len, sub |-> seg.sub,
                 at |-> t, cursor |-> st.cursor, csec |-> st.sec,
                 start |-> startTime, stop |-> startTime + seg.len,
                 onended |-> last, ended |-> FALSE,
                 stops |-> stops, resumes |-> resumes,
                 gain |-> gainNode]
  IN [st EXCEPT !.q = sh.rest,
                !.t = t,
                !.srcs = Append(detached, source),
                !.eoq = IF last THEN Len(st.srcs) + 1 ELSE @,
                !.worklets = Wired(@, ThisStreamer),
                !.tapped = Tapped(@, st.worklets, ThisStreamer),
                !.cursor = source.stop,
                !.sec = Plus(StartSec(st.sec, Sec(t)), Sec(seg.len))]

\* The while loop of scheduleNextBuffer: the states it can end in. The test
\* of line 480 reads the clock (seen) when the queue is not empty, line 522
\* reads it again (at) for every segment scheduled.
RECURSIVE PassLoop(_)
PassLoop(st) ==
  IF Len(st.q) = 0
    THEN {st}
    ELSE UNION {IF ~WindowOpen(st.sec, Sec(seen))
                  THEN {[st EXCEPT !.t = seen]}
                  ELSE IF deviceFailed
                    THEN \* createAudioBuffer throws: the segment is already shifted
                         {[st EXCEPT !.q = Shift(st.q).rest, !.threw = TRUE, !.t = seen]}
                    ELSE UNION {PassLoop(ScheduleHead(st, at)) : at \in ClockReads(seen)}
                : seen \in ClockReads(st.t)}

\* The delay given to setTimeout, in ms, for the doubles cursor and t:
\* Math.max(0, (this.scheduledTime - this.context.currentTime) * 1000 - 50),
\* of which a timer takes the whole part.
TimeoutDelay(cursor, t) ==
  IF BigLess(cursor, t) THEN 0
  ELSE LET nextCheckTime == Times(Minus(cursor, t), 1000)
       IN IF BigLess(nextCheckTime, Whole(TimeoutMarginMs)) THEN 0
          ELSE Floor(Minus(nextCheckTime, Whole(TimeoutMarginMs)))

\* What scheduleNextBuffer does after the loop, with isStreamComplete =
\* complete: the states it can end in. Line 545 reads the clock once more when
\* the queue is not empty.
PassTail(st, complete) ==
  IF st.threw THEN {st}
  ELSE IF Len(st.q) = 0
    THEN {IF complete
            THEN [st EXCEPT !.playing = FALSE, !.interval = FALSE]
            ELSE IF ~st.interval
                   THEN [st EXCEPT !.interval = TRUE, !.idue = st.t + Ms(PollMs)]
                   ELSE st}
    ELSE {[st EXCEPT !.t = t,
                     !.tos = @ (+) SetToBag({[due |-> t + Ms(TimeoutDelay(st.sec, Sec(t))),
                                              epoch |-> stops]})]
            : t \in ClockReads(st.t)}

\* scheduleNextBuffer() with isStreamComplete = complete: the loop, then what
\* follows it.
ScheduleNextBuffer(st, complete) ==
  UNION {PassTail(loop, complete) : loop \in PassLoop(st)}

\* The streamer's fields after a pass that ended in one of the states ends;
\* the clock stands at the value read last.
SetPass(ends) ==
  \E end \in ends :
    /\ now' = end.t
    /\ audioQueue' = end.q
    /\ scheduledTime' = end.cursor
    /\ scheduledSec' = end.sec
    /\ sources' = end.srcs
    /\ registeredWorklets' = end.worklets
    /\ tapSources' = end.tapped
    /\ endOfQueueAudioSource' = end.eoq
    /\ isPlaying' = end.playing
    /\ checkInterval' = end.interval
    /\ intervalDue' = end.idue
    /\ timeouts' = end.tos
    /\ uncaught' = uncaught + (IF end.threw THEN 1 ELSE 0)

\* AudioParam event list: an event goes after the events at or before its
\* time, the double sec.
InsertEvent(evs, e) ==
  LET k == Cardinality({i \in 1..Len(evs) : ~BigLess(e.sec, evs[i].sec)})
  IN SubSeq(evs, 1, k) \o <<e>> \o SubSeq(evs, k + 1, Len(evs))

\* this.context.currentTime + 0.1 at clock value t, the double: the end of the
\* fade of stop(). It is not always the double of (t + 100 ms).
FadeEnd(t) == Plus(Sec(t), Sec(Ms(FadeMs)))

\* gain.linearRampToValueAtTime(value, sec), called at clock value t; time is
\* sec in whole sample periods.
Ramp(value, time, sec, t) ==
  [kind |-> "ramp", value |-> value, time |-> time, sec |-> sec, called |-> t]

\* gain.setValueAtTime(value, time), called at clock value t.
SetValue(value, time, t) ==
  [kind |-> "set", value |-> value, time |-> time, sec |-> Sec(time), called |-> t]

\* The value of a gain parameter with automation events evs at clock value t:
\* the value of the last event at or before t (on the doubles), or the point
\* reached on the line to the next event when that event is a linear ramp
\* (in thousandths, on the times in whole sample periods).
GainValue(evs, t) ==
  LET k == Cardinality({i \in 1..Len(evs) : ~BigLess(Sec(t), evs[i].sec)})
      v0 == IF k = 0 THEN GainOne ELSE evs[k].value
  IN IF k < Len(evs) /\ evs[k + 1].kind = "ramp"
       THEN LET t0 == IF k = 0 THEN evs[k + 1].called ELSE evs[k].time
                t1 == evs[k + 1].time
                v1 == evs[k + 1].value
            IN IF t <= t0 THEN v0 ELSE v0 + ((v1 - v0) * (t - t0)) \div (t1 - t0)
       ELSE v0

\* One invocation of onComplete, from complete() (src = 0) or from the onended
\* handler of source src.
Completion(via, src) ==
  [via |-> via, called |-> completes > 0,
   busy |-> \E i \in 1..Len(sources) : sources[i].stop > now,
   src |-> src, latest |-> Len(sources), stops |-> stops, stream |-> streams]

\* ------------------------------------------------------------ actions

\* The callback of a timer armed for clock value due can run: the clock has
\* come within ClockLag of it. It can run at any later time.
Ripe(due) == now >= due - ClockLag

\* A call of addPCM16, stop, resume or complete arrives at a grid point, or
\* after it within the time the call before it can have taken.
OnGrid == now % Step <= CallSpan

CallsMade == Len(chunks) + stops + resumes + completes

\* A call can arrive now.
CanCall == OnGrid /\ CallsMade < MaxCalls /\ now <= Horizon

\* addPCM16(chunk), chunk of `bytes` bytes. When nothing plays, line 460 reads
\* the clock (t) and the scheduling pass follows in the call.
AddPCM16(bytes) ==
  /\ CanCall
  /\ LET n == ProcessPCM16Chunk(bytes)
         segs == SliceChunk(submitted + 1, n, now)
         st == [PassState EXCEPT !.q = audioQueue \o segs]
     IN /\ submitted' = submitted + n
        /\ chunks' = Append(chunks, n)
        /\ bytesIn' = Append(bytesIn, bytes)
        /\ streams' = IF isPlaying THEN streams ELSE streams + 1
        /\ enqueued' = enqueued \o [i \in 1..Len(segs) |-> segs[i].len]
        /\ IF ~isPlaying
             THEN \E t \in ClockReads(now) :
                    SetPass(ScheduleNextBuffer(
                      [st EXCEPT !.playing = TRUE, !.t = t,
                                 !.cursor = t + initialBufferTime,
                                 !.sec = Plus(Sec(t), Sec(initialBufferTime))],
                      FALSE))
             ELSE SetPass({st})
  /\ isStreamComplete' = FALSE
  /\ lastCall' = "add"
  /\ stopped' = FALSE
  /\ passAfterStop' = FALSE
  /\ UNCHANGED <<context, stops, resumes, completes, completions>>
  /\ UNCHANGED <<gainVars, envVars, tapRest, wsVars, auxVars>>

\* stop() that forgets to empty audioQueue.
StopKeepsQueue ==
  /\ CanCall
  /\ isPlaying' = FALSE
  /\ isStreamComplete' = TRUE
  /\ checkInterval' = FALSE
  /\ stops' = stops + 1
  /\ lastCall' = "stop"
  /\ stopped' = TRUE
  /\ passAfterStop' = FALSE
  /\ UNCHANGED <<context, audioQueue, intervalDue, timeouts, sources, endOfQueueAudioSource,
                 submitted, chunks, enqueued, resumes, completes, completions>>
  /\ \E reset \in ClockReads(now) :
       /\ scheduledTime' = reset
       /\ scheduledSec' = Sec(reset)
       /\ \E fade \in ClockReads(reset) :
            /\ gainEvents' = InsertEvent(gainEvents,
                                         Ramp(0, fade + Ms(FadeMs), FadeEnd(fade), fade))
            /\ gainTimers' = gainTimers (+) SetToBag({[due |-> fade + Ms(GainSwapMs)]})
            /\ now' = fade
  /\ UNCHANGED <<gainNode, envVars, uncaught, bytesIn,
                 streams, tapVars, wsVars, auxVars>>

\* stop(): the fields it resets and the interval it clears; the deferred
\* setTimeout passes have no handle and stay pending. Line 557 reads the clock
\* for the cursor (reset), line 566 reads it again (fade): the gain is ramped
\* to 0 over 100 ms from there and a timer is set that replaces the gain node
\* after 200 ms.
Stop ==
  /\ CanCall
  /\ isPlaying' = FALSE
  /\ isStreamComplete' = TRUE
  /\ audioQueue' = <<>>
  /\ checkInterval' = FALSE
  /\ stops' = stops + 1
  /\ lastCall' = "stop"
  /\ stopped' = TRUE
  /\ passAfterStop' = FALSE
  /\ UNCHANGED <<context, intervalDue, timeouts, sources, endOfQueueAudioSource,
                 submitted, chunks, enqueued, resumes, completes, completions>>
  /\ \E reset \in ClockReads(now) :
       /\ scheduledTime' = reset
       /\ scheduledSec' = Sec(reset)
       /\ \E fade \in ClockReads(reset) :
            /\ gainEvents' = InsertEvent(gainEvents,
                                         Ramp(0, fade + Ms(FadeMs), FadeEnd(fade), fade))
            /\ gainTimers' = gainTimers (+) SetToBag({[due |-> fade + Ms(GainSwapMs)]})
            /\ now' = fade
  /\ UNCHANGED <<gainNode, envVars, uncaught, bytesIn,
                 streams, tapVars, wsVars, auxVars>>

\* resume() that also runs a scheduling pass.
ResumeWithPass ==
  /\ CanCall
  /\ resumes' = resumes + 1
  /\ lastCall' = "resume"
  /\ IF context.state = "suspended"
       THEN /\ context' = [context EXCEPT !.resuming = @ + 1]
            /\ UNCHANGED <<now, isStreamComplete, scheduledTime, scheduledSec, gainEvents,
                           audioQueue, isPlaying, checkInterval, intervalDue, timeouts,
                           sources, endOfQueueAudioSource, uncaught,
                           registeredWorklets, tapSources>>
       ELSE /\ isStreamComplete' = FALSE
            /\ \E t \in ClockReads(now) :
                 SetPass(ScheduleNextBuffer(
                   [PassState EXCEPT !.t = t, !.cursor = t + initialBufferTime,
                                     !.sec = Plus(Sec(t), Sec(initialBufferTime))],
                   FALSE))
            /\ gainEvents' = InsertEvent(gainEvents, SetValue(GainOne, now', now'))
            /\ UNCHANGED context
  /\ UNCHANGED <<submitted, chunks, enqueued,
                 stops, completes, stopped, passAfterStop, completions>>
  /\ UNCHANGED <<gainNode, gainTimers, envVars, bytesIn,
                 streams, tapRest, wsVars, auxVars>>

\* resume(), up to its return. On a context whose state reads "running"
\* nothing is awaited and the three assignments are made in the call: line 581
\* reads the clock for the cursor (reset), line 582 reads it again (set). On
\* a suspended context the call returns at `await this.context.resume()` with
\* nothing assigned.
Resume ==
  /\ CanCall
  /\ resumes' = resumes + 1
  /\ lastCall' = "resume"
  /\ IF context.state = "suspended"
       THEN /\ context' = [context EXCEPT !.resuming = @ + 1]
            /\ UNCHANGED <<now, isStreamComplete, scheduledTime, scheduledSec, gainEvents>>
       ELSE /\ isStreamComplete' = FALSE
            /\ \E reset \in ClockReads(now) :
                 /\ scheduledTime' = reset + initialBufferTime
                 /\ scheduledSec' = Plus(Sec(reset), Sec(initialBufferTime))
                 /\ \E set \in ClockReads(reset) :
                      /\ gainEvents' = InsertEvent(gainEvents, SetValue(GainOne, set, set))
                      /\ now' = set
            /\ UNCHANGED context
  /\ UNCHANGED <<audioQueue, isPlaying, checkInterval, intervalDue, timeouts,
                 sources, endOfQueueAudioSource, submitted, chunks, enqueued,
                 stops, completes, stopped, passAfterStop, completions>>
  /\ UNCHANGED <<gainNode, gainTimers, envVars, uncaught, bytesIn,
                 streams, tapVars, wsVars, auxVars>>

\* The rendering thread starts again for a context.resume() that waits: the
\* clock runs, while context.state reads "suspended" until the promises are
\* fulfilled.
ContextRestart ==
  /\ context.state = "suspended"
  /\ ~context.rendering
  /\ context.resuming > 0
  /\ context' = [context EXCEPT !.rendering = TRUE]
  /\ UNCHANGED <<now, audioQueue, isPlaying, isStreamComplete, checkInterval,
                 intervalDue, scheduledTime, scheduledSec, timeouts, sources,
                 endOfQueueAudioSource, submitted, chunks, enqueued, stops, resumes,
                 completes, lastCall, stopped, passAfterStop, completions, gainVars,
                 envVars, uncaught, bytesIn, streams, tapVars, wsVars, auxVars>>

\* The lines 580-582 of k resume() calls that go on after their await, one
\* after the other, the last read before them having returned prev: the
\* outcomes, with the value line 581 read last (reset), the automation events
\* and the value read last (t).
RECURSIVE Continuations(_, _, _, _)
Continuations(k, prev, last, evs) ==
  IF k = 0
    THEN {[t |-> prev, reset |-> last, evs |-> evs]}
    ELSE UNION {UNION {Continuations(k - 1, set, reset,
                                     InsertEvent(evs, SetValue(GainOne, set, set)))
                         : set \in ClockReads(reset)}
                  : reset \in ClockReads(prev)}

\* The promises of context.resume() are fulfilled: context.state reads
\* "running" and every resume() that awaits it goes on, one after the other
\* in the same turn, each with its own reads of the clock.
Resumed ==
  /\ context.resuming > 0
  /\ context.rendering
  /\ context' = [context EXCEPT !.state = "running", !.resuming = 0]
  /\ isStreamComplete' = FALSE
  /\ \E c \in Continuations(context.resuming, now, now, gainEvents) :
       /\ scheduledTime' = c.reset + initialBufferTime
       /\ scheduledSec' = Plus(Sec(c.reset), Sec(initialBufferTime))
       /\ gainEvents' = c.evs
       /\ now' = c.t
  /\ UNCHANGED <<audioQueue, isPlaying, checkInterval, intervalDue, timeouts,
                 sources, endOfQueueAudioSource, submitted, chunks, enqueued,
                 stops, resumes, completes, lastCall, stopped, passAfterStop,
                 completions>>
  /\ UNCHANGED <<gainNode, gainTimers, envVars, uncaught, bytesIn,
                 streams, tapVars, wsVars, auxVars>>

\* The browser suspends the audio context: the rendering thread stops and the
\* clock stands still until a resume() has brought it back.
ContextSuspend ==
  /\ OnGrid
  /\ now <= Horizon
  /\ context.state = "running"
  /\ context.suspends < MaxSuspends
  /\ context' = [context EXCEPT !.state = "suspended", !.rendering = FALSE,
                                !.suspends = @ + 1]
  /\ UNCHANGED <<now, audioQueue, isPlaying, isStreamComplete, checkInterval,
                 intervalDue, scheduledTime, scheduledSec, timeouts, sources,
                 endOfQueueAudioSource, submitted, chunks, enqueued, stops, resumes,
                 completes, lastCall, stopped, passAfterStop, completions, gainVars,
                 envVars, uncaught, bytesIn, streams, tapVars, wsVars, auxVars>>

\* complete(): sets the flag and invokes onComplete at once.
Complete ==
  /\ CanCall
  /\ isStreamComplete' = TRUE
  /\ completes' = completes + 1
  /\ lastCall' = "complete"
  /\ completions' = Append(completions, [Completion("complete", 0) EXCEPT !.called = TRUE])
  /\ UNCHANGED <<now, context, audioQueue, isPlaying, checkInterval, intervalDue,
                 scheduledTime, scheduledSec, timeouts, sources, endOfQueueAudioSource,
                 submitted, chunks, enqueued, stops, resumes, stopped, passAfterStop>>
  /\ UNCHANGED <<gainVars, envVars, uncaught, bytesIn,
                 streams, tapVars, wsVars, auxVars>>

\* The callback of the polling interval. The interval keeps the schedule it
\* was armed with: its next callback is due 100 ms after this one was.
IntervalFire ==
  /\ checkInterval
  /\ Ripe(intervalDue)
  /\ IF Len(audioQueue) > 0
       THEN SetPass({[end EXCEPT !.idue = intervalDue + Ms(PollMs)] :
                       end \in ScheduleNextBuffer(PassState, isStreamComplete)})
       ELSE /\ intervalDue' = intervalDue + Ms(PollMs)
            /\ UNCHANGED <<now, audioQueue, scheduledTime, scheduledSec, sources,
                           endOfQueueAudioSource, isPlaying, checkInterval, timeouts,
                           uncaught, registeredWorklets, tapSources>>
  /\ passAfterStop' = stopped
  /\ UNCHANGED <<context, isStreamComplete, submitted, chunks, enqueued, stops,
                 resumes, completes, lastCall, stopped, completions>>
  /\ UNCHANGED <<gainVars, envVars, bytesIn,
                 streams, tapRest, wsVars, auxVars>>

\* The callback of one deferred setTimeout(() => this.scheduleNextBuffer()).
TimeoutFire(to) ==
  /\ BagIn(to, timeouts)
  /\ Ripe(to.due)
  /\ SetPass(ScheduleNextBuffer([PassState EXCEPT !.tos = @ (-) SetToBag({to})],
                                isStreamComplete))
  /\ passAfterStop' = stopped
  /\ UNCHANGED <<context, isStreamComplete, submitted, chunks, enqueued, stops,
                 resumes, completes, lastCall, stopped, completions>>
  /\ UNCHANGED <<gainVars, envVars, bytesIn,
                 streams, tapRest, wsVars, auxVars>>

\* The ended event of source i, whose onended handler is still attached: it
\* is dispatched once the source has played to its end, at any later time.
SourceEnded(i) ==
  /\ sources[i].onended
  /\ ~sources[i].ended
  /\ now >= sources[i].stop
  /\ sources' = [sources EXCEPT ![i].ended = TRUE]
  /\ IF Len(audioQueue) = 0 /\ endOfQueueAudioSource = i
       THEN /\ endOfQueueAudioSource' = 0
            /\ completions' = Append(completions, Completion("ended", i))
       ELSE UNCHANGED <<endOfQueueAudioSource, completions>>
  /\ UNCHANGED <<now, context, audioQueue, isPlaying, isStreamComplete, checkInterval,
                 intervalDue, scheduledTime, scheduledSec, timeouts, submitted, chunks, enqueued,
                 stops, resumes, completes, lastCall, stopped, passAfterStop>>
  /\ UNCHANGED <<gainVars, envVars, uncaught, bytesIn,
                 streams, tapVars, wsVars, auxVars>>

\* The callback of one setTimeout(..., 200) of stop(): the gain node in use is
\* disconnected and a new one, with no automation and the default gain 1,
\* takes its place.
GainReplace(tm) ==
  /\ BagIn(tm, gainTimers)
  /\ Ripe(tm.due)
  /\ gainNode' = gainNode + 1
  /\ gainEvents' = <<>>
  /\ gainTimers' = gainTimers (-) SetToBag({tm})
  /\ UNCHANGED <<now, context, audioQueue, isPlaying, isStreamComplete, checkInterval,
                 intervalDue, scheduledTime, scheduledSec, timeouts, sources, endOfQueueAudioSource,
                 submitted, chunks, enqueued, stops, resumes, completes, lastCall,
                 stopped, passAfterStop, completions, envVars, uncaught, bytesIn,
                 streams, tapVars, wsVars, auxVars>>

\* The output device fails: from now on createBuffer throws.
DeviceFail ==
  /\ ~deviceFailed
  /\ deviceFailed' = TRUE
  /\ UNCHANGED <<now, context, audioQueue, isPlaying, isStreamComplete, checkInterval,
                 intervalDue, scheduledTime, scheduledSec, timeouts, sources, endOfQueueAudioSource,
                 submitted, chunks, enqueued, stops, resumes, completes, lastCall,
                 stopped, passAfterStop, completions, gainVars, conv, uncaught, bytesIn,
                 streams, tapVars, wsVars, auxVars>>

\* The 16-bit sample is normalized as _processPCM16Chunk does.
Normalize ==
  /\ conv.stage = "int16"
  /\ conv' = [conv EXCEPT !.stage = "float32", !.float = NormalizeSample(conv.v)]
  /\ UNCHANGED <<now, context, audioQueue, isPlaying, isStreamComplete, checkInterval,
                 intervalDue, scheduledTime, scheduledSec, timeouts, sources, endOfQueueAudioSource,
                 submitted, chunks, enqueued, stops, resumes, completes, lastCall,
                 stopped, passAfterStop, completions, gainVars, deviceFailed,
                 uncaught, bytesIn,
                 streams, tapVars, wsVars, auxVars>>

\* The normalized sample is quantized as AudioProcessingWorklet.processChunk does.
Quantize ==
  /\ conv.stage = "float32"
  /\ conv' = [conv EXCEPT !.stage = "back", !.back = Requantize(conv.float)]
  /\ UNCHANGED <<now, context, audioQueue, isPlaying, isStreamComplete, checkInterval,
                 intervalDue, scheduledTime, scheduledSec, timeouts, sources, endOfQueueAudioSource,
                 submitted, chunks, enqueued, stops, resumes, completes, lastCall,
                 stopped, passAfterStop, completions, gainVars, deviceFailed,
                 uncaught, bytesIn,
                 streams, tapVars, wsVars, auxVars>>

\* ------------------------------------------------------ worklet taps

\* A handler that takes the place of the handlers registered before it.
ReplaceHandler(graph, h) == [graph EXCEPT !.handlers = <<h>>]

\* workletsRecord[workletName].handlers.push(handler)
PushHandler(graph, h) == [graph EXCEPT !.handlers = Append(@, h)]

\* addWorklet(name, src, handler) on streamer s, up to its await; the handler
\* is numbered by the call (joined: the call found the name in the record
\* while its module was still loading). A name already in the record gets the handler
\* pushed; otherwise the record gets the name with this handler and the call
\* goes on to load the module.
AddWorklet(s, name) ==
  /\ Len(taps) < MaxTaps
  /\ LET c == RegistryKey(s)
         h == Len(taps) + 1
         graph == registeredWorklets[c][name]
     IN /\ taps' = Append(taps, [streamer |-> s, ctx |-> ContextOf(s), name |-> name,
                               joined |-> graph.exists /\ ~graph.node])
        /\ IF graph.exists
             THEN /\ registeredWorklets' =
                       [registeredWorklets EXCEPT ![c][name] = PushHandler(graph, h)]
                  /\ loading' = loading
             ELSE /\ registeredWorklets' =
                       [registeredWorklets EXCEPT
                          ![c][name] = [NoGraph EXCEPT !.exists = TRUE, !.handlers = <<h>>]]
                  /\ loading' = loading (+) SetToBag({[ctx |-> c, name |-> name]})
  /\ UNCHANGED <<tapSources, delivered, streamerVars, conv, wsVars, auxVars>>

\* addWorklet after `await addModule`: the node is created and put in the record.
ModuleLoaded(ld) ==
  /\ BagIn(ld, loading)
  /\ loading' = loading (-) SetToBag({ld})
  /\ registeredWorklets' =
       [registeredWorklets EXCEPT ![ld.ctx][ld.name].node = TRUE,
                                  ![ld.ctx][ld.name].made = @ + 1]
  /\ UNCHANGED <<taps, tapSources, delivered, streamerVars, conv, wsVars, auxVars>>

\* The streamers whose queue and clock are not modelled.
OtherStreamers == Streamers \ {ThisStreamer}

\* One segment scheduled by a pass of another streamer s, of which only the
\* wiring is modelled (scheduleNextBuffer, lines 505-520): the source is
\* connected to every node of the record of the streamer's context, and the
\* node's port hands its messages to the handlers.
ScheduleTapped(s) ==
  /\ Len(tapSources) < MaxTapSources
  /\ tapSources' = Tapped(tapSources, registeredWorklets, s)
  /\ registeredWorklets' = Wired(registeredWorklets, s)
  /\ UNCHANGED <<loading, taps, delivered, streamerVars, conv, wsVars, auxVars>>

\* The node under key c and name `name` posts a message about the audio of
\* source i, which is connected to it: node.port.onmessage calls every handler
\* of the graph.
NodeMessage(c, name, i) ==
  /\ Len(delivered) < MaxTapMessages
  /\ registeredWorklets[c][name].node
  /\ registeredWorklets[c][name].wired
  /\ RegistryKey(tapSources[i].streamer) = c
  /\ name \in tapSources[i].nodes
  /\ delivered' = Append(delivered,
                         [name |-> name, source |-> i,
                          handlers |-> registeredWorklets[c][name].handlers,
                          registered |-> Len(taps)])
  /\ UNCHANGED <<registeredWorklets, loading, taps, tapSources, streamerVars, conv, wsVars, auxVars>>

\* -------------------------------------------------- WebSocket client

\* A socket just created by connect(): handlers attached, promise pending.
NewSocket == [state |-> "connecting", handlers |-> TRUE, promise |-> "pending",
              dropped |-> FALSE, heard |-> FALSE]

\* The socket part of disconnect() on this.ws = w: the four handlers are set
\* to null and an open or connecting socket is closed.
Drop(socks, w) ==
  IF w # 0
    THEN [socks EXCEPT ![w].handlers = FALSE,
                       ![w].dropped = TRUE,
                       ![w].state = IF @ \in {"open", "connecting"} THEN "closing" ELSE @]
    ELSE socks

\* The client as a handler or a call finds it and leaves it.
Client == [sockets |-> sockets, ws |-> ws, status |-> wsStatus, emitted |-> emitted,
           calls |-> wsCalls]

\* The client c becomes the state.
SetClient(c) ==
  /\ sockets' = c.sockets
  /\ ws' = c.ws
  /\ wsStatus' = c.status
  /\ emitted' = c.emitted
  /\ wsCalls' = c.calls

\* disconnect() on the client c.
DisconnectBody(c) ==
  [c EXCEPT !.sockets = Drop(c.sockets, c.ws),
            !.ws = 0,
            !.status = "disconnected",
            !.calls = Append(@, [call |-> "disconnect", returned |-> "true"])]

\* The events a handler of socket k emits, one after the other from position
\* i, to the listeners of the client; 'log' events are not recorded. The
\* listener of the event at position d calls disconnect() (d = 0: no listener
\* calls it).
RECURSIVE EmitAll(_, _, _, _, _)
EmitAll(c, events, k, d, i) ==
  IF i > Len(events) THEN c
  ELSE LET heard == IF events[i] = "log" THEN c
                    ELSE [c EXCEPT !.emitted =
                            Append(@, [event |-> events[i], socket |-> k,
                                       dropped |-> c.sockets[k].dropped])]
       IN EmitAll(IF i = d THEN DisconnectBody(heard) ELSE heard, events, k, d, i + 1)

\* The listener positions of a handler that emits the events: a listener
\* calls disconnect() only while calls are left in the behaviour.
ListenerAt(events) == IF Len(wsCalls) < MaxWsCalls THEN 0..Len(events) ELSE {0}

\* connect() that opens a socket whatever the status.
ConnectAlways ==
  /\ Len(wsCalls) < MaxWsCalls
  /\ \E thrown \in BOOLEAN :
       IF thrown
         THEN /\ sockets' = Drop(sockets, ws)
              /\ ws' = 0
              /\ wsStatus' = "disconnected"
              /\ wsCalls' = Append(wsCalls, [call |-> "connect", returned |-> "failed"])
         ELSE /\ sockets' = Append(Drop(sockets, ws), NewSocket)
              /\ ws' = Len(sockets) + 1
              /\ wsStatus' = "connecting"
              /\ wsCalls' = Append(wsCalls, [call |-> "connect", returned |-> "promise"])
  /\ wsModel' = Len(wsCalls) + 1
  /\ UNCHANGED <<emitted, streamerVars, conv, tapVars, auxVars>>

\* connect(model, config); the model and config are numbered by the call. A
\* refused call returns a promise of false; new WebSocket(url) may throw, and
\* then the promise resolves to false with the status 'disconnected'.
Connect ==
  /\ Len(wsCalls) < MaxWsCalls
  /\ IF wsStatus \in {"connected", "connecting"}
       THEN /\ wsCalls' = Append(wsCalls, [call |-> "connect", returned |-> "false"])
            /\ UNCHANGED <<wsStatus, ws, wsModel, sockets>>
       ELSE /\ \E thrown \in BOOLEAN :
                 IF thrown
                   THEN /\ sockets' = Drop(sockets, ws)
                        /\ ws' = 0
                        /\ wsStatus' = "disconnected"
                        /\ wsCalls' = Append(wsCalls, [call |-> "connect", returned |-> "failed"])
                   ELSE /\ sockets' = Append(Drop(sockets, ws), NewSocket)
                        /\ ws' = Len(sockets) + 1
                        /\ wsStatus' = "connecting"
                        /\ wsCalls' = Append(wsCalls, [call |-> "connect", returned |-> "promise"])
            /\ wsModel' = Len(wsCalls) + 1
  /\ UNCHANGED <<emitted, streamerVars, conv, tapVars, auxVars>>

\* disconnect()
Disconnect ==
  /\ Len(wsCalls) < MaxWsCalls
  /\ SetClient(DisconnectBody(Client))
  /\ UNCHANGED <<wsModel, streamerVars, conv, tapVars, auxVars>>

\* The events of the onopen handler.
OpenEvents == <<"log", "open">>

\* The open event of socket k, and its onopen handler if still attached: the
\* setup message is sent on the socket the client holds by then, which throws
\* on a connecting socket, and only after it the promise is resolved.
SocketOpen(k) ==
  /\ sockets[k].state = "connecting"
  /\ IF sockets[k].handlers
       THEN \E d \in ListenerAt(OpenEvents) :
              LET opened == [Client EXCEPT !.sockets[k].state = "open",
                                           !.status = "connected"]
                  c == EmitAll(opened, OpenEvents, k, d, 1)
                  thrown == c.ws # 0 /\ c.sockets[c.ws].state = "connecting"
              IN SetClient(IF thrown THEN c
                           ELSE [c EXCEPT !.sockets[k].promise =
                                            IF @ = "pending" THEN "resolved" ELSE @])
       ELSE /\ sockets' = [sockets EXCEPT ![k].state = "open"]
            /\ UNCHANGED <<wsStatus, emitted, ws, wsCalls>>
  /\ UNCHANGED <<wsModel, streamerVars, conv, tapVars, auxVars>>

\* The events of the onerror handler.
ErrorEvents == <<"log", "error">>

\* The error event of socket k (a close event follows), and its onerror
\* handler if still attached.
SocketError(k) ==
  /\ sockets[k].state \in {"connecting", "open"}
  /\ IF sockets[k].handlers
       THEN \E d \in ListenerAt(ErrorEvents) :
              LET failed == [Client EXCEPT !.sockets[k].state = "failed",
                                           !.status = "disconnected"]
                  c == EmitAll(failed, ErrorEvents, k, d, 1)
              IN SetClient([c EXCEPT !.ws = 0,
                                     !.sockets[k].promise =
                                       IF @ = "pending" THEN "rejected" ELSE @])
       ELSE /\ sockets' = [sockets EXCEPT ![k].state = "failed"]
            /\ UNCHANGED <<wsStatus, emitted, ws, wsCalls>>
  /\ UNCHANGED <<wsModel, streamerVars, conv, tapVars, auxVars>>

\* The events of the onclose handler.
CloseEvents == <<"log", "close">>

\* The close event of socket k, and its onclose handler if still attached.
SocketClose(k) ==
  /\ sockets[k].state \in {"open", "closing", "failed"}
  /\ IF sockets[k].handlers
       THEN \E d \in ListenerAt(CloseEvents) :
              LET closed == [Client EXCEPT !.sockets[k].state = "closed",
                                           !.status = "disconnected"]
                  c == EmitAll(closed, CloseEvents, k, d, 1)
              IN SetClient([c EXCEPT !.ws = 0])
       ELSE /\ sockets' = [sockets EXCEPT ![k].state = "closed"]
            /\ UNCHANGED <<wsStatus, emitted, ws, wsCalls>>
  /\ UNCHANGED <<wsModel, streamerVars, conv, tapVars, auxVars>>

\* The server messages modelled: an interruption, an audio response, and a
\* model turn that completes the turn and carries text and audio.
Messages == {"interrupted", "audio", "turn"}

\* The events handleMessage emits for a message, in the order of the code.
HandleMessage(message) ==
  CASE message = "interrupted" -> <<"log", "interrupted">>
    [] message = "audio" -> <<"audio", "log">>
    [] message = "turn" -> <<"log", "turncomplete", "content", "log", "audio", "log">>

\* A message arrives on socket k, the only one the socket gets handled: its
\* onmessage handler, still attached, emits the events of the message. (With
\* the handler set to null the message changes nothing.)
SocketMessage(k, message) ==
  /\ sockets[k].state \in {"open", "closing"}
  /\ sockets[k].handlers
  /\ ~sockets[k].heard
  /\ \E d \in ListenerAt(HandleMessage(message)) :
       SetClient(EmitAll([Client EXCEPT !.sockets[k].heard = TRUE],
                         HandleMessage(message), k, d, 1))
  /\ UNCHANGED <<wsModel, streamerVars, conv, tapVars, auxVars>>

\* --------------------------------------------------- audio recorder

\* handleStop of stop(): the source is disconnected, the tracks of the stream
\* held are stopped, and stream, recordingWorklet and vuWorklet are cleared.
HandleStop(r) ==
  [r EXCEPT !.srcs = IF r.source # 0 THEN [@ EXCEPT ![r.source].connected = FALSE] ELSE @,
            !.media = IF r.stream # 0 THEN [@ EXCEPT ![r.stream].stopped = TRUE] ELSE @,
            !.stream = 0,
            !.recordingWorklet = FALSE,
            !.vuWorklet = FALSE]

\* this.starting.then(handleStop)
DeferStop(r) == [r EXCEPT !.tasks[r.starting].thens = @ + 1]

\* No handleStop callback of a resolved promise waits to run: such callbacks
\* run before the next call or continuation.
NoJobs == recorder.jobs = <<>>

\* start(): without navigator.mediaDevices the call throws; otherwise the
\* executor of the new promise runs up to its first await, the call of
\* getUserMedia, and the promise is stored in this.starting.
RecorderStart ==
  /\ Len(recorder.calls) < MaxRecCalls
  /\ NoJobs
  /\ \E mediaDevices \in BOOLEAN :
       IF mediaDevices
         THEN recorder' = [recorder EXCEPT
                             !.tasks = Append(@, [pc |-> "getUserMedia", thens |-> 0,
                                                  deferred |-> FALSE, vuContext |-> 0]),
                             !.starting = Len(recorder.tasks) + 1,
                             !.calls = Append(@, "start")]
         ELSE recorder' = [recorder EXCEPT !.calls = Append(@, "threw")]
  /\ UNCHANGED <<streamerVars, conv, tapVars, wsVars, ptt, ping, logger, worklet>>

\* stop(): deferred to the promise in this.starting when there is one.
RecorderStop ==
  /\ Len(recorder.calls) < MaxRecCalls
  /\ NoJobs
  /\ IF recorder.starting # 0
       THEN recorder' = DeferStop([recorder EXCEPT !.calls = Append(@, "stop"),
                                                   !.tasks[recorder.starting].deferred = TRUE])
       ELSE recorder' = HandleStop([recorder EXCEPT !.calls = Append(@, "stop")])
  /\ UNCHANGED <<streamerVars, conv, tapVars, wsVars, ptt, ping, logger, worklet>>

\* The executor of start() number t after `await getUserMedia`: the stream
\* acquired is stored in this.stream, and audioContext() is awaited.
GetUserMedia(t) ==
  /\ recorder.tasks[t].pc = "getUserMedia"
  /\ NoJobs
  /\ recorder' = [recorder EXCEPT
                    !.media = Append(@, [by |-> t, stopped |-> FALSE]),
                    !.stream = Len(recorder.media) + 1,
                    !.tasks[t].pc = "audioContext"]
  /\ UNCHANGED <<streamerVars, conv, tapVars, wsVars, ptt, ping, logger, worklet>>

\* After `await audioContext(...)`: the new context, numbered by the start, is
\* stored in this.audioContext; createMediaStreamSource(this.stream) throws
\* when this.stream is undefined (the executor ends there and its promise
\* stays pending); then addModule of the recording worklet is called on the
\* context and awaited.
CreateSource(t) ==
  /\ recorder.tasks[t].pc = "audioContext"
  /\ NoJobs
  /\ IF recorder.stream = 0
       THEN recorder' = [recorder EXCEPT !.audioContext = t,
                                         !.tasks[t].pc = "threw"]
       ELSE recorder' = [recorder EXCEPT
                          !.audioContext = t,
                          !.srcs = Append(@, [stream |-> recorder.stream, connected |-> FALSE]),
                          !.source = Len(recorder.srcs) + 1,
                          !.modules[t].recording = "requested",
                          !.tasks[t].pc = "addModule"]
  /\ UNCHANGED <<streamerVars, conv, tapVars, wsVars, ptt, ping, logger, worklet>>

\* Whether new AudioWorkletNode(this.audioContext, name) may find the
\* processor `name` registered on the context c: a module whose addModule has
\* resolved is registered, one still being added may or may not be by now.
Registered(mods, c, name) ==
  CASE mods[c][name] = "loaded" -> {TRUE}
    [] mods[c][name] = "requested" -> BOOLEAN
    [] OTHER -> {FALSE}

\* After `await addModule` of the recording worklet: the node is created on
\* the context held by now, which throws InvalidStateError when the processor
\* is not registered there (a later start has replaced this.audioContext);
\* this.source is connected to the node, and addModule of the vu meter is
\* called on the context held and awaited.
RecordingModule(t) ==
  /\ recorder.tasks[t].pc = "addModule"
  /\ NoJobs
  /\ LET c == recorder.audioContext
         mods == [recorder.modules EXCEPT ![t].recording = "loaded"]
     IN \E found \in Registered(mods, c, "recording") :
          IF found
            THEN recorder' = [recorder EXCEPT
                                !.modules = [mods EXCEPT ![c].vu =
                                               IF @ = "loaded" THEN @ ELSE "requested"],
                                !.recordingWorklet = TRUE,
                                !.srcs[recorder.source].connected = TRUE,
                                !.tasks[t].vuContext = c,
                                !.tasks[t].pc = "addVuModule"]
            ELSE recorder' = [recorder EXCEPT !.modules = mods,
                                              !.tasks[t].pc = "threw"]
  /\ UNCHANGED <<streamerVars, conv, tapVars, wsVars, ptt, ping, logger, worklet>>

\* After `await addModule` of the vu meter: the node is created on the context
\* held by now (InvalidStateError when the processor is not registered there)
\* and connected, recording is set, the promise is resolved, which queues the
\* handleStop callbacks waiting on it, and this.starting is cleared.
VuModule(t) ==
  /\ recorder.tasks[t].pc = "addVuModule"
  /\ NoJobs
  /\ LET c == recorder.audioContext
         mods == [recorder.modules EXCEPT ![recorder.tasks[t].vuContext].vu = "loaded"]
     IN \E found \in Registered(mods, c, "vu") :
          IF found
            THEN recorder' = [recorder EXCEPT
                                !.modules = mods,
                                !.vuWorklet = TRUE,
                                !.srcs[recorder.source].connected = TRUE,
                                !.recording = TRUE,
                                !.jobs = [i \in 1..recorder.tasks[t].thens |-> t],
                                !.starting = 0,
                                !.tasks[t].pc = "resolved"]
            ELSE recorder' = [recorder EXCEPT !.modules = mods,
                                              !.tasks[t].pc = "threw"]
  /\ UNCHANGED <<streamerVars, conv, tapVars, wsVars, ptt, ping, logger, worklet>>

\* The next handleStop callback queued by a resolved promise runs.
StopJob ==
  /\ recorder.jobs # <<>>
  /\ recorder' = HandleStop([recorder EXCEPT !.jobs = Tail(@)])
  /\ UNCHANGED <<streamerVars, conv, tapVars, wsVars, ptt, ping, logger, worklet>>

\* ----------------------------------------------- push-to-talk script

\* The body of the 'exit' and of the 'error' handler of a sox process:
\* recordProcess = null; isRecording = false
ProcessGone(s, k) == [s EXCEPT !.recordProcess = 0, !.isRecording = FALSE]

\* startRecording()
StartRecording ==
  /\ ~ptt.exited
  /\ Len(ptt.calls) < MaxPttCalls
  /\ IF ptt.isRecording
       THEN ptt' = [ptt EXCEPT !.calls = Append(@, "start")]
       ELSE ptt' = [ptt EXCEPT !.calls = Append(@, "start"),
                               !.isRecording = TRUE,
                               !.procs = Append(@, "running"),
                               !.recordProcess = Len(ptt.procs) + 1]
  /\ UNCHANGED <<streamerVars, conv, tapVars, wsVars, recorder, ping, logger, worklet>>

\* stopRecording(): the process referred to is killed, and the two messages
\* are sent when the socket is open.
StopRecording ==
  /\ ~ptt.exited
  /\ Len(ptt.calls) < MaxPttCalls
  /\ IF ~ptt.isRecording
       THEN ptt' = [ptt EXCEPT !.calls = Append(@, "stop")]
       ELSE ptt' = [ptt EXCEPT
                      !.calls = Append(@, "stop"),
                      !.isRecording = FALSE,
                      !.procs = IF ptt.recordProcess # 0
                                  THEN [@ EXCEPT ![ptt.recordProcess] =
                                                   IF @ = "running" THEN "killed" ELSE @]
                                  ELSE @,
                      !.recordProcess = 0,
                      !.sent = IF ptt.open
                                 THEN @ \o <<"input_audio_buffer.commit", "response.create">>
                                 ELSE @]
  /\ UNCHANGED <<streamerVars, conv, tapVars, wsVars, recorder, ping, logger, worklet>>

\* The 'exit' event of process k, killed or ended by itself, and its handler.
ProcessExit(k) ==
  /\ ~ptt.exited
  /\ ptt.procs[k] \in {"running", "killed"}
  /\ ptt' = ProcessGone([ptt EXCEPT !.procs[k] = "exited"], k)
  /\ UNCHANGED <<streamerVars, conv, tapVars, wsVars, recorder, ping, logger, worklet>>

\* The 'error' event of process k (sox could not be spawned, or could not be
\* killed), and its handler.
ProcessError(k) ==
  /\ ~ptt.exited
  /\ ptt.procs[k] \in {"running", "killed"}
  /\ ptt' = ProcessGone([ptt EXCEPT !.procs[k] = "failed"], k)
  /\ UNCHANGED <<streamerVars, conv, tapVars, wsVars, recorder, ping, logger, worklet>>

\* A chunk on the stdout of process k, and its 'data' handler: the audio is
\* sent while isRecording is set and the socket is open.
ProcessData(k) ==
  /\ ~ptt.exited
  /\ ptt.procs[k] \in {"running", "killed"}
  /\ ptt.chunks < MaxPttData
  /\ ptt' = [ptt EXCEPT !.chunks = @ + 1,
                        !.sent = IF ptt.isRecording /\ ptt.open
                                   THEN Append(@, "input_audio_buffer.append")
                                   ELSE @]
  /\ UNCHANGED <<streamerVars, conv, tapVars, wsVars, recorder, ping, logger, worklet>>

\* The 'open' event of the socket and its handler: the socket is OPEN and
\* session.update is sent on it.
PttSocketOpen ==
  /\ ~ptt.exited
  /\ ~ptt.open
  /\ ~ptt.closed
  /\ ptt' = [ptt EXCEPT !.open = TRUE, !.sent = Append(@, "session.update")]
  /\ UNCHANGED <<streamerVars, conv, tapVars, wsVars, recorder, ping, logger, worklet>>

\* The close frame of the server arrives: the readyState of the socket is
\* CLOSING, and the tests of lines 139 and 177 fail from now on.
PttSocketClosing ==
  /\ ~ptt.exited
  /\ ptt.open
  /\ ptt' = [ptt EXCEPT !.open = FALSE, !.closed = TRUE]
  /\ UNCHANGED <<streamerVars, conv, tapVars, wsVars, recorder, ping, logger, worklet>>

\* cleanup(): the process referred to is killed and recordProcess is set to
\* null, isRecording is left as it is, and close() is called on the socket.
\* It is the handler of SIGINT and SIGTERM, after which the script runs on
\* (exit FALSE); the 'close' handler of the socket and the quit commands
\* call it and then process.exit(0) (exit TRUE).
Cleanup(exit) ==
  /\ ~ptt.exited
  /\ exit \/ ptt.signals < MaxPttSignals
  /\ ptt' = [ptt EXCEPT
               !.procs = IF ptt.recordProcess # 0
                           THEN [@ EXCEPT ![ptt.recordProcess] =
                                            IF @ = "running" THEN "killed" ELSE @]
                           ELSE @,
               !.recordProcess = 0,
               !.open = FALSE,
               !.closed = TRUE,
               !.signals = IF exit THEN @ ELSE @ + 1,
               !.exited = exit]
  /\ UNCHANGED <<streamerVars, conv, tapVars, wsVars, recorder, ping, logger, worklet>>

\* -------------------------------------------------- spatial audio pings

\* currentPingTask?.cancel()
CancelTask(s) ==
  IF s.currentPingTask # 0 /\ s.items[s.currentPingTask] = "pending"
    THEN [s EXCEPT !.items[s.currentPingTask] = "cancelled"]
    ELSE s

\* schedulePing(): guarded by isPlayingPing and by the buffer of the current
\* distance (buffer: getCurrentPingBuffer() is not nil), the buffer is
\* scheduled on the player node with its completion handler.
SchedulePing(s, buffer) ==
  IF s.isPlayingPing /\ buffer
    THEN [s EXCEPT !.buffers = Append(@, [state |-> "scheduled", playing |-> s.isPlayingPing])]
    ELSE s

\* The first lines of stopPinging(): the flag is cleared and the work item
\* referred to is cancelled.
StopPingingCancel(s) == CancelTask([s EXCEPT !.isPlayingPing = FALSE])

\* The rest of stopPinging(): the work item is forgotten, and
\* playerNode.stop() has the completion handler of every buffer still
\* scheduled called.
StopPingingClear(s) ==
  [s EXCEPT !.currentPingTask = 0,
            !.buffers = [b \in 1..Len(s.buffers) |->
                           IF s.buffers[b].state = "scheduled"
                             THEN [s.buffers[b] EXCEPT !.state = "stopped"]
                             ELSE s.buffers[b]]]

\* startPinging(): it returns when the manager is not set up or has no
\* standard buffer, or when the audio engine fails to start (started: none
\* of these); otherwise isPlayingPing = true; schedulePing().
StartPinging(s, started, buffer) ==
  IF started THEN SchedulePing([s EXCEPT !.isPlayingPing = TRUE], buffer) ELSE s

\* setTarget(worldPosition) is called on the main thread: stopPinging() runs
\* up to the cancel of the work item.
SetTarget ==
  /\ ping.main = "idle"
  /\ ping.calls < MaxPingCalls
  /\ Len(ping.buffers) < MaxPingBuffers
  /\ ping' = StopPingingCancel([ping EXCEPT !.calls = @ + 1, !.main = "setTarget"])
  /\ UNCHANGED <<streamerVars, conv, tapVars, wsVars, recorder, ptt, logger, worklet>>

\* stopPinging() is called by itself on the main thread, and runs up to the
\* cancel of the work item.
StopPinging ==
  /\ ping.main = "idle"
  /\ ping.calls < MaxPingCalls
  /\ ping' = StopPingingCancel([ping EXCEPT !.calls = @ + 1, !.main = "stopPinging"])
  /\ UNCHANGED <<streamerVars, conv, tapVars, wsVars, recorder, ptt, logger, worklet>>

\* The call on the main thread goes on after the cancel: stopPinging() ends,
\* and setTarget() calls startPinging().
MainReturns ==
  /\ ping.main # "idle"
  /\ \E started, buffer \in BOOLEAN :
       LET cleared == StopPingingClear([ping EXCEPT !.main = "idle"])
       IN ping' = IF ping.main = "setTarget"
                    THEN StartPinging(cleared, started, buffer)
                    ELSE cleared
  /\ UNCHANGED <<streamerVars, conv, tapVars, wsVars, recorder, ptt, logger, worklet>>

\* The player node has played buffer b, the oldest one scheduled, to its end.
BufferPlayed(b) ==
  /\ ping.buffers[b].state = "scheduled"
  /\ \A a \in 1..(b - 1) : ping.buffers[a].state # "scheduled"
  /\ ping' = [ping EXCEPT !.buffers[b].state = "played"]
  /\ UNCHANGED <<streamerVars, conv, tapVars, wsVars, recorder, ptt, logger, worklet>>

\* The completion handler of buffer b, on the player node's completion queue
\* (one handler at a time): the work item for the next ping is created and
\* the existing one cancelled.
HandlerCancel(b) ==
  /\ ping.handler = 0
  /\ ping.buffers[b].state \in {"played", "stopped"}
  /\ ping' = [CancelTask(ping) EXCEPT !.handler = b]
  /\ UNCHANGED <<streamerVars, conv, tapVars, wsVars, recorder, ptt, logger, worklet>>

\* The rest of the completion handler of buffer b: the new work item is
\* stored in currentPingTask and dispatched to the main queue after the
\* interval.
HandlerStore(b) ==
  /\ ping.handler = b
  /\ ping' = [ping EXCEPT !.items = Append(@, "pending"),
                           !.currentPingTask = Len(ping.items) + 1,
                           !.buffers[b].state = "handled",
                           !.handler = 0]
  /\ UNCHANGED <<streamerVars, conv, tapVars, wsVars, recorder, ptt, logger, worklet>>

\* Work item i runs on the main queue, between the calls: schedulePing().
PingTaskRuns(i) ==
  /\ ping.main = "idle"
  /\ ping.items[i] = "pending"
  /\ Len(ping.buffers) < MaxPingBuffers
  /\ \E buffer \in BOOLEAN : ping' = SchedulePing([ping EXCEPT !.items[i] = "executed"], buffer)
  /\ UNCHANGED <<streamerVars, conv, tapVars, wsVars, recorder, ptt, logger, worklet>>

\* --------------------------------------------------------- logger store

\* Array.prototype.slice(start): a negative start counts from the end, and
\* -0 is 0, the start of the array.
Slice(seq, start) ==
  LET from == IF start < 0 THEN Max(Len(seq) + start, 0)
              ELSE IF start > Len(seq) THEN Len(seq) ELSE start
  IN SubSeq(seq, from + 1, Len(seq))

\* The types and messages of the entries logged.
LogTypes == {"client.send", "server.audio"}
LogMessages == {"buffer", "audio"}

\* log({date, type, message}); the date is the number of the call. An entry
\* with the type and message of the last one takes its place, with its count
\* one higher; any other entry is put after the last maxLogs - 1 entries.
Log(type, message) ==
  /\ logger.logged < MaxLogCalls
  /\ LET logs == logger.logs
         date == logger.logged + 1
         prevLog == logs[Len(logs)]
     IN IF Len(logs) > 0 /\ prevLog.type = type /\ prevLog.message = message
          THEN logger' = [logger EXCEPT
                            !.logged = date,
                            !.logs = SubSeq(logs, 1, Len(logs) - 1)
                                       \o <<[date |-> date, type |-> type, message |-> message,
                                              count |-> IF prevLog.count # 0
                                                          THEN prevLog.count + 1 ELSE 1]>>]
          ELSE logger' = [logger EXCEPT
                            !.logged = date,
                            !.logs = Slice(logs, -(logger.maxLogs - 1))
                                       \o <<[date |-> date, type |-> type, message |-> message,
                                              count |-> 0]>>]
  /\ UNCHANGED <<streamerVars, conv, tapVars, wsVars, recorder, ptt, ping, worklet>>

\* clearLogs()
ClearLogs ==
  /\ logger.sets < MaxLogSets
  /\ logger' = [logger EXCEPT !.logs = <<>>, !.sets = @ + 1]
  /\ UNCHANGED <<streamerVars, conv, tapVars, wsVars, recorder, ptt, ping, worklet>>

\* setMaxLogs(n)
SetMaxLogs(n) ==
  /\ logger.sets < MaxLogSets
  /\ logger' = [logger EXCEPT !.maxLogs = n, !.sets = @ + 1]
  /\ UNCHANGED <<streamerVars, conv, tapVars, wsVars, recorder, ptt, ping, worklet>>

\* ----------------------------------------------------- recording worklet

\* The lengths of channel 0 given to process(); 0 is an input without channels.
ChannelLengths == {0, 128, 1000, BufferLength - 128, BufferLength}

\* The sample at position p of the microphone signal: 1.0 first, then every
\* value of [-1, 1) in turn.
InputSample(p) == Float32Unit - (((p - 1) * 4099) % (2 * Float32Unit + 1))

\* this.buffer.slice(0, this.bufferWriteIndex): the end is clamped to the
\* length of the array.
BufferSlice(w) ==
  [i \in 1..(IF w.bufferWriteIndex > BufferLength THEN BufferLength ELSE w.bufferWriteIndex)
     |-> IF i <= Len(w.buffer) THEN w.buffer[i] ELSE 0]

\* A sendAndClearBuffer() that leaves the write index where it is.
SendAndKeepIndex(w) == [w EXCEPT !.posted = Append(@, BufferSlice(w))]

\* sendAndClearBuffer()
SendAndClearBuffer(w) ==
  [w EXCEPT !.posted = Append(@, BufferSlice(w)), !.bufferWriteIndex = 0]

\* this.buffer[this.bufferWriteIndex++] = int16Value; a store past the end of
\* an Int16Array is ignored.
StoreSample(w, int16Value) ==
  LET at == w.bufferWriteIndex + 1
  IN [w EXCEPT !.bufferWriteIndex = at,
               !.buffer = IF at > BufferLength THEN @
                          ELSE IF at <= Len(@) THEN [@ EXCEPT ![at] = ToInt16(int16Value)]
                          ELSE Append(@, ToInt16(int16Value))]

\* One pass of the loop of processChunk: the sample is converted and stored,
\* and a full buffer is sent.
ProcessSample(w, sample) ==
  LET stored == StoreSample(w, Trunc(sample * Int16Scale, Float32Unit))
  IN IF stored.bufferWriteIndex >= BufferLength THEN SendAndClearBuffer(stored) ELSE stored

\* The passes of the loop for the samples lo..hi, in order: those of the first
\* half, then those of the second half. The test on the first half has its
\* value computed before the second half is entered.
RECURSIVE ProcessSamples(_, _, _, _)
ProcessSamples(w, float32Array, lo, hi) ==
  IF lo > hi THEN w
  ELSE IF lo = hi THEN ProcessSample(w, float32Array[lo])
  ELSE LET mid == (lo + hi) \div 2
           first == ProcessSamples(w, float32Array, lo, mid)
       IN IF first.bufferWriteIndex >= 0
            THEN ProcessSamples(first, float32Array, mid + 1, hi)
            ELSE first

\* processChunk(float32Array)
ProcessChunk(w, float32Array) ==
  LET looped == ProcessSamples(w, float32Array, 1, Len(float32Array))
  IN IF looped.bufferWriteIndex >= BufferLength THEN SendAndClearBuffer(looped) ELSE looped

\* process(inputs), inputs[0][0] the next len samples of the signal.
Process(len) ==
  /\ worklet.calls < MaxProcessCalls
  /\ LET float32Array == [i \in 1..len |-> InputSample(Len(worklet.fed) + i)]
         w == [worklet EXCEPT !.calls = @ + 1, !.fed = @ \o float32Array]
     IN worklet' = IF len > 0 THEN ProcessChunk(w, float32Array) ELSE w
  /\ UNCHANGED <<streamerVars, conv, tapVars, wsVars, recorder, ptt, ping, logger>>

\* The instants at which the armed timers are due: they run by the wall
\* clock, also while the context is suspended.
TimerDues ==
  {to.due : to \in BagToSet(timeouts)}
    \cup {tm.due : tm \in BagToSet(gainTimers)}
    \cup (IF checkInterval THEN {intervalDue} ELSE {})

\* The earliest clock values at which the callbacks of the armed timers can
\* run.
EarlyTimes == {d - ClockLag : d \in TimerDues}

\* The instants at which a callback becomes due.
EventTimes ==
  TimerDues \cup {sources[i].stop : i \in {j \in 1..Len(sources) :
                                            sources[j].onended /\ ~sources[j].ended}}

GridNext == ((now \div Step) + 1) * Step

\* The clock values the clock can move to in one step, up to clock value h:
\* the next grid point, or an instant before it at which a callback becomes
\* due or, for a timer, can run at the earliest.
TickTargets(h) ==
  {t \in EventTimes \cup EarlyTimes \cup {GridNext} : t > now /\ t <= GridNext /\ t <= h}

\* The output clock advances, up to clock value h. The clock does not wait
\* for a callback: one that is due, or one that can run early, may run at any
\* later clock value.
Tick(h) ==
  /\ context.rendering
  /\ \E t \in TickTargets(h) : now' = t
  /\ UNCHANGED <<context, audioQueue, isPlaying, isStreamComplete, checkInterval,
                 intervalDue, scheduledTime, scheduledSec, timeouts, sources,
                 endOfQueueAudioSource, submitted,
                 chunks, enqueued, stops, resumes, completes, lastCall, stopped,
                 passAfterStop, completions, gainVars, envVars, uncaught, bytesIn,
                 streams, tapVars, wsVars, auxVars>>

\* The timers of bag B, each d nearer to its due time.
Nearer(B, d) ==
  [x \in {[e EXCEPT !.due = @ - d] : e \in DOMAIN B} |-> B[[x EXCEPT !.due = @ + d]]]

\* Time passes while the rendering thread stands still, up to the next timer
\* that becomes due within a grid step, or by one grid step:
\* context.currentTime does not move, so every armed timer comes nearer to
\* the clock value.
TickSuspended ==
  /\ ~context.rendering
  /\ context.idle < MaxIdle
  /\ LET ahead == {t - now : t \in {u \in TimerDues : u > now /\ u - now < Step}}
         d == IF ahead # {} THEN CHOOSE e \in ahead : \A f \in ahead : e <= f ELSE Step
     IN /\ timeouts' = Nearer(timeouts, d)
        /\ gainTimers' = Nearer(gainTimers, d)
        /\ intervalDue' = IF checkInterval THEN intervalDue - d ELSE intervalDue
  /\ context' = [context EXCEPT !.idle = @ + 1]
  /\ UNCHANGED <<now, audioQueue, isPlaying, isStreamComplete, checkInterval,
                 scheduledTime, scheduledSec, sources, endOfQueueAudioSource,
                 submitted, chunks, enqueued, stops, resumes, completes, lastCall,
                 stopped, passAfterStop, completions, gainNode, gainEvents, envVars,
                 uncaught, bytesIn, streams, tapVars, wsVars, auxVars>>

\* Where callbacks may run early and late the calls stop at grid step
\* LateTime, and the clock runs on to LateHorizon: two
\* grid steps more.
LateCall == now <= LateTime * Step + CallSpan

LateHorizon == (LateTime + 2) * Step

\* Byte lengths of the chunks handed to addPCM16 where callbacks may run
\* early and late: 100 ms of audio, and 200 ms (the lookahead window).
LateBytes == {4800, 9600}

\* Calls at any grid point, callbacks early or late, every read of the clock
\* a value of its own.
Next ==
  \/ LateCall /\ \E bytes \in LateBytes : AddPCM16(bytes)
  \/ LateCall /\ Stop
  \/ LateCall /\ Resume
  \/ LateCall /\ Complete
  \/ IntervalFire
  \/ \E to \in BagToSet(timeouts) : TimeoutFire(to)
  \/ \E i \in 1..Len(sources) : SourceEnded(i)
  \/ \E tm \in BagToSet(gainTimers) : GainReplace(tm)
  \/ Tick(LateHorizon)

\* The clock stands at one value from the beginning of a call or callback to
\* its end.
Steady == now' = now

\* No callback is overdue.
NoneDue == \A t \in EventTimes : t > now

\* The clock moves to the next instant at which a callback becomes due, or
\* to the next grid point.
Soonest == now' \in EventTimes \cup {GridNext} /\ \A t \in EventTimes : t > now => now' <= t

\* The behaviours in which every callback runs at the instant it is due and
\* the clock stands still within a call: calls at any grid point.
NextPrompt ==
  \/ \E bytes \in ChunkBytes : AddPCM16(bytes) /\ Steady /\ now % Step = 0
  \/ Stop /\ Steady /\ now % Step = 0
  \/ Resume /\ Steady /\ now % Step = 0
  \/ Complete /\ now % Step = 0
  \/ IntervalFire /\ Steady /\ now = intervalDue
  \/ \E to \in BagToSet(timeouts) : TimeoutFire(to) /\ Steady /\ now = to.due
  \/ \E i \in 1..Len(sources) : SourceEnded(i) /\ now = sources[i].stop
  \/ \E tm \in BagToSet(gainTimers) : GainReplace(tm) /\ now = tm.due
  \/ NoneDue /\ Tick(Horizon) /\ Soonest

\* Byte lengths of the chunks of the burst specification: one segment, and one
\* segment followed by 100 ms more.
BurstBytes == {15360, 20160}

NextBurst ==
  \/ \E bytes \in BurstBytes : AddPCM16(bytes) /\ Steady /\ now % Step = 0
  \/ Stop /\ Steady /\ now % Step = 0
  \/ Resume /\ Steady /\ now % Step = 0
  \/ Complete /\ now % Step = 0
  \/ IntervalFire /\ Steady /\ now = intervalDue
  \/ \E to \in BagToSet(timeouts) : TimeoutFire(to) /\ Steady /\ now = to.due
  \/ \E i \in 1..Len(sources) : SourceEnded(i) /\ now = sources[i].stop
  \/ \E tm \in BagToSet(gainTimers) : GainReplace(tm) /\ now = tm.due
  \/ NoneDue /\ Tick(Horizon) /\ Soonest

NextFault ==
  \/ \E bytes \in ChunkBytes : AddPCM16(bytes) /\ Steady /\ now % Step = 0
  \/ Stop /\ Steady /\ now % Step = 0
  \/ Resume /\ Steady /\ now % Step = 0
  \/ Complete /\ now % Step = 0
  \/ IntervalFire /\ Steady /\ now = intervalDue
  \/ \E to \in BagToSet(timeouts) : TimeoutFire(to) /\ Steady /\ now = to.due
  \/ \E i \in 1..Len(sources) : SourceEnded(i) /\ now = sources[i].stop
  \/ \E tm \in BagToSet(gainTimers) : GainReplace(tm) /\ now = tm.due
  \/ DeviceFail
  \/ NoneDue /\ Tick(Horizon) /\ Soonest

\* Byte lengths of the chunks of the submit specification: empty, one odd
\* byte, less than a segment (odd), one segment, more than one (odd).
SubmitBytes == {0, 1, 4801, 15360, 20161}

\* The calls stop after LateCalls calls and at grid step LateTime.
SubmitCall == CallsMade < LateCalls /\ LateCall

\* Only addPCM16 is called, with chunks of many lengths, while the callbacks
\* run early or late.
NextSubmit ==
  \/ SubmitCall /\ \E bytes \in SubmitBytes : AddPCM16(bytes)
  \/ IntervalFire
  \/ \E to \in BagToSet(timeouts) : TimeoutFire(to)
  \/ \E i \in 1..Len(sources) : SourceEnded(i)
  \/ Tick(LateHorizon)

\* Byte length of the chunks submitted back to back: one segment.
BackBytes == {15360}

\* The chunks arrive one right after the other, and the clock runs on until
\* the first segment has ended and a grid step more.
BackHorizon == initialBufferTime + bufferSize + Step

\* Chunks of one segment are submitted back to back, while the callbacks run
\* early or late.
NextBack ==
  \/ now <= CallSpan /\ \E bytes \in BackBytes : AddPCM16(bytes)
  \/ IntervalFire
  \/ \E to \in BagToSet(timeouts) : TimeoutFire(to)
  \/ \E i \in 1..Len(sources) : SourceEnded(i)
  \/ Tick(BackHorizon)

\* Byte length of the chunks of the suspension specification: one segment.
SuspendBytes == {15360}

\* The calls stop after SuspendCalls calls, the calls and the suspensions at
\* grid step FairTime.
SuspendCall == CallsMade < SuspendCalls /\ now <= FairTime * Step + CallSpan

SuspendHorizon == (FairTime + 1) * Step

\* The browser may suspend the audio context. No source plays to its end
\* before the clock has passed initialBufferTime + bufferSize, which is
\* beyond SuspendHorizon: no ended event is dispatched in these behaviours.
NextSuspend ==
  \/ SuspendCall /\ \E bytes \in SuspendBytes : AddPCM16(bytes)
  \/ SuspendCall /\ Stop
  \/ SuspendCall /\ Resume
  \/ ContextRestart
  \/ Resumed
  \/ now <= FairTime * Step /\ ContextSuspend
  \/ IntervalFire
  \/ \E to \in BagToSet(timeouts) : TimeoutFire(to)
  \/ \E tm \in BagToSet(gainTimers) : GainReplace(tm)
  \/ Tick(SuspendHorizon)
  \/ TickSuspended

\* Callbacks may run early and late, and the clock moves within a call.
Spec == Init /\ [][Next]_vars

\* The browser may suspend the audio context; callbacks may run early and
\* late, and the clock moves within a call.
SpecSuspend == Init /\ [][NextSuspend]_vars

\* Every callback runs at the instant it is due.
SpecPrompt == Init /\ [][NextPrompt]_vars

\* The signed 16-bit values.
Int16 == (-Int16Scale)..(Int16Scale - 1)

InitConvert == InitStreamer /\ conv \in {Raw(v) : v \in Int16}

NextConvert == Normalize \/ Quantize

\* Byte length of the chunks of the tap specification: one short segment.
TapBytes == {4800}

\* In the tap specification a chunk is submitted to streamer 1 while it is
\* idle, so that the call schedules the segment and wires it.
TapCall == ~isPlaying /\ Len(tapSources) < MaxTapSources

NextTap ==
  \/ \E s \in Streamers, name \in Names : AddWorklet(s, name)
  \/ \E ld \in BagToSet(loading) : ModuleLoaded(ld)
  \/ \E s \in OtherStreamers : ScheduleTapped(s)
  \/ TapCall /\ \E bytes \in TapBytes : AddPCM16(bytes)
  \/ \E c \in Keys, name \in Names, i \in 1..Len(tapSources) : NodeMessage(c, name, i)

\* Worklets are registered by three streamers while segments are scheduled
\* and the nodes post messages.
SpecTap == Init /\ [][NextTap]_vars

NextClient ==
  \/ Connect
  \/ Disconnect
  \/ \E k \in 1..Len(sockets) : SocketOpen(k)
  \/ \E k \in 1..Len(sockets) : SocketError(k)
  \/ \E k \in 1..Len(sockets) : SocketClose(k)
  \/ \E k \in 1..Len(sockets), message \in Messages : SocketMessage(k, message)

NextRecorder ==
  \/ RecorderStart
  \/ RecorderStop
  \/ \E t \in 1..Len(recorder.tasks) : GetUserMedia(t)
  \/ \E t \in 1..Len(recorder.tasks) : CreateSource(t)
  \/ \E t \in 1..Len(recorder.tasks) : RecordingModule(t)
  \/ \E t \in 1..Len(recorder.tasks) : VuModule(t)
  \/ StopJob

\* The recorder under calls of start() and stop() while the awaits of the
\* pending starts complete in any order.
SpecRecorder == Init /\ [][NextRecorder]_vars

NextPtt ==
  \/ StartRecording
  \/ StopRecording
  \/ \E k \in 1..Len(ptt.procs) : ProcessExit(k)
  \/ \E k \in 1..Len(ptt.procs) : ProcessError(k)
  \/ \E k \in 1..Len(ptt.procs) : ProcessData(k)
  \/ PttSocketOpen
  \/ PttSocketClosing
  \/ \E exit \in BOOLEAN : Cleanup(exit)

\* The push-to-talk script under key presses and releases while the sox
\* processes exit or fail, the socket opens and closes and the script is
\* signalled or quit at any time.
SpecPtt == Init /\ [][NextPtt]_vars

NextPing ==
  \/ SetTarget
  \/ StopPinging
  \/ MainReturns
  \/ \E b \in 1..Len(ping.buffers) : BufferPlayed(b)
  \/ \E b \in 1..Len(ping.buffers) : HandlerCancel(b)
  \/ \E b \in 1..Len(ping.buffers) : HandlerStore(b)
  \/ \E i \in 1..Len(ping.items) : PingTaskRuns(i)

\* The ping chain under calls of setTarget() and stopPinging() on the main
\* thread while buffers complete and work items run.
SpecPing == Init /\ [][NextPing]_vars

NextLogger ==
  \/ \E type \in LogTypes, message \in LogMessages : Log(type, message)
  \/ ClearLogs
  \/ \E n \in 1..MaxMaxLogs : SetMaxLogs(n)

\* The logger store under calls of log(), clearLogs() and setMaxLogs(n), n >= 1.
SpecLogger == Init /\ [][NextLogger]_vars

NextWorklet == \E len \in ChannelLengths : Process(len)

\* The recording worklet under calls of process().
SpecWorklet == Init /\ [][NextWorklet]_vars

\* The WebSocket client under calls of connect() and disconnect() and the
\* events of its sockets.
SpecClient == Init /\ [][NextClient]_vars

\* One sample of any 16-bit value goes through the two conversions.
SpecConvert == InitConvert /\ [][NextConvert]_vars

\* Chunks of one segment submitted back to back.
SpecBack == Init /\ [][NextBack]_vars

\* Only addPCM16 is called, with chunks of many lengths.
SpecSubmit == Init /\ [][NextSubmit]_vars

\* Every callback runs at the instant it is due; chunks of more than one
\* segment.
SpecBurst == Init /\ [][NextBurst]_vars

\* Every callback runs at the instant it is due; the output device may
\* fail.
SpecFault == Init /\ [][NextFault]_vars

\* ------------------------------------------------------------- claims

\* The segments of seq lie one after the other in the submitted stream, the
\* first of them at position `first`.
RECURSIVE Contiguous(_, _)
Contiguous(seq, first) ==
  \/ Len(seq) = 0
  \/ /\ Head(seq).first = first
     /\ Contiguous(Tail(seq), first + Head(seq).len)

RECURSIVE TotalLen(_)
TotalLen(seq) == IF Len(seq) = 0 THEN 0 ELSE Head(seq).len + TotalLen(Tail(seq))

\* The scheduled segments, in the order of their source.start calls.
Scheduled == [i \in 1..Len(sources) |-> [first |-> sources[i].first, len |-> sources[i].len]]
Queued == [i \in 1..Len(audioQueue) |-> [first |-> audioQueue[i].first, len |-> audioQueue[i].len]]

\* C1 (order preservation): while stop() has not been called, the samples of
\* the segments handed to source.start, in scheduling order, followed by those
\* still in audioQueue, are exactly the samples submitted, in submission order:
\* no element of the queue is reordered, duplicated or dropped.
C1_OrderPreserved ==
  stops = 0 =>
    /\ Contiguous(Scheduled \o Queued, 1)
    /\ TotalLen(Scheduled \o Queued) = submitted

\* Three chunks were submitted and all of them scheduled, one of them by a
\* timer callback after its submission.
C1_Witness ==
  /\ stops = 0
  /\ Len(chunks) = 3
  /\ Len(sources) = 3
  /\ audioQueue = <<>>
  /\ \E i \in 1..Len(sources) : sources[i].at > sources[i].sub + CallSpan

\* C2 (no overlap): of two segments scheduled one after the other, the earlier
\* one ends no later than the later one starts.
C2_NoOverlap ==
  \A i \in 1..(Len(sources) - 1) : sources[i].stop <= sources[i + 1].start

\* C3 (never into the past): every segment starts at the larger of the cursor
\* and the clock, the cursor as it was when the segment was taken and the
\* clock as line 522 read it: no earlier than either.
C3_StartClamped ==
  \A i \in 1..Len(sources) :
    /\ sources[i].start >= sources[i].at
    /\ sources[i].start >= sources[i].cursor
    /\ sources[i].start \in {sources[i].at, sources[i].cursor}

\* A segment was scheduled with the cursor behind the clock and started at the
\* clock.
C3_Witness ==
  \E i \in 1..Len(sources) :
    sources[i].cursor < sources[i].at /\ sources[i].start = sources[i].at

\* C4 (gap bound): with no stop() and no resume(), a segment whose data was
\* submitted before the segment scheduled before it ended starts exactly at
\* that segment's end.
C4_NoOwnGap ==
  (stops = 0 /\ resumes = 0) =>
    \A i \in 1..(Len(sources) - 1) :
      sources[i + 1].sub < sources[i].stop => sources[i + 1].start = sources[i].stop

\* The segment lengths of a chunk of n samples cut at every bufferSize.
SplitLens(n) ==
  [i \in 1..((n + bufferSize - 1) \div bufferSize) |->
     IF i <= n \div bufferSize THEN bufferSize ELSE n % bufferSize]

\* C5 (carryover): two chunks whose combined sample count is not a multiple
\* of bufferSize are enqueued with the segment lengths of their
\* concatenation: a rest shorter than a segment waits for the next call.
C5_Carryover ==
  (Len(chunks) = 2 /\ (chunks[1] + chunks[2]) % bufferSize # 0) =>
    enqueued = SplitLens(chunks[1] + chunks[2])

\* C6 (completion only at the end of a completed stream): onComplete is invoked
\* only when complete() has been called and no scheduled segment is still
\* pending or playing.
C6_CompleteOnlyAtEnd ==
  \A i \in 1..Len(completions) : completions[i].called /\ ~completions[i].busy

\* C7 (end of stream is reached): once complete() was the last call and every
\* callback armed so far has run (no deferred pass pending, nothing queued,
\* every segment played and its ended event delivered), the streamer is idle.
\* From such a state only the polling interval can still fire.
C7_QuiescentIsIdle ==
  ( /\ lastCall = "complete"
    /\ audioQueue = <<>>
    /\ timeouts = EmptyBag
    /\ \A i \in 1..Len(sources) :
         sources[i].stop <= now /\ (sources[i].onended => sources[i].ended) )
  => (~isPlaying /\ ~checkInterval)

\* C8 (stop mid-stream): in every step that ends with stop() called and
\* addPCM16 not since (the stop() itself, a callback of a timer or of a
\* source, a resume(), a complete(), the clock moving on), the queue is empty
\* after the step and the step schedules no segment.
C8_NothingScheduledAfterStop ==
  [][stopped' => (audioQueue' = <<>> /\ Len(sources') = Len(sources))]_vars

\* A stream was stopped with segments scheduled, and a timer callback armed
\* before the stop ran after it.
C8_Witness ==
  /\ stopped
  /\ passAfterStop
  /\ Len(sources) > 0
  /\ Len(chunks) >= 2

\* C9 (stop cancels the timers): no deferred pass armed before a stop() is
\* pending after it, and no polling interval is armed while stopped.
C9_NoStaleTimer ==
  /\ \A to \in BagToSet(timeouts) : to.epoch = stops
  /\ lastCall = "stop" => ~checkInterval

\* C10 (idempotent stop): a stop() of a streamer that is not playing changes
\* nothing but the flag it sets and the cursor it moves to the clock: the
\* queue, the timers, the scheduled sources and the gain stay as they are;
\* so a second stop() with no call in between leaves the streamer as the
\* first left it.
C10_StopIdempotent ==
  [][(stops' = stops + 1 /\ ~isPlaying) =>
       /\ isStreamComplete'
       /\ lastCall = "stop" => UNCHANGED isStreamComplete
       /\ UNCHANGED <<isPlaying, audioQueue, checkInterval, timeouts, sources,
                      endOfQueueAudioSource, completions>>
       /\ UNCHANGED <<gainNode, gainEvents, gainTimers>>
    ]_vars

\* The scheduled segments whose onended handler is attached and has not run.
LiveCallbacks == {i \in 1..Len(sources) : sources[i].onended /\ ~sources[i].ended}

\* At most one scheduled segment carries a live completion callback, and it is
\* the one endOfQueueAudioSource refers to.
OneLiveCallback ==
  /\ Cardinality(LiveCallbacks) <= 1
  /\ \A i \in LiveCallbacks : i = endOfQueueAudioSource

\* C11: only the true last segment can signal completion: at any time at most
\* one scheduled segment carries a live completion callback, and a segment
\* after which a later segment has been scheduled never fires onComplete when
\* it ends.
C11_OnlyTailCompletes ==
  /\ OneLiveCallback
  /\ \A k \in 1..Len(completions) :
       completions[k].via = "ended" => completions[k].src = completions[k].latest

\* The segments a step has scheduled.
NewSources == {i \in 1..Len(sources') : i > Len(sources)}

\* C12: addPCM16 on a streamer that is not playing sets isPlaying, starts the
\* cursor at currentTime + 100 ms, currentTime as line 460 reads it during
\* the call, and runs a scheduling pass, so the first segment of the new
\* stream is scheduled in that call, with that cursor, and neither it nor a
\* later segment of the call starts earlier than 100 ms after the submit;
\* addPCM16 on a playing streamer leaves the cursor where it was.
C12_StreamStart ==
  [][Len(chunks') = Len(chunks) + 1 =>
       IF ~isPlaying
         THEN /\ isPlaying'
              /\ chunks'[Len(chunks')] > 0 =>
                   /\ Len(sources') > Len(sources)
                   /\ sources'[Len(sources) + 1].cursor - Ms(InitialBufferMs) \in now..now'
              /\ \A i \in NewSources : sources'[i].start >= now + Ms(InitialBufferMs)
              /\ chunks'[Len(chunks')] = 0 =>
                   scheduledTime' - Ms(InitialBufferMs) \in now..now'
         ELSE /\ scheduledTime' = scheduledTime
              /\ isPlaying'
    ]_vars

\* A second stream was started by addPCM16 after a stop(): its first segment
\* was scheduled in the call with the clock moving on, and starts more than
\* one initial buffer time after the submit.
C12_Witness ==
  /\ lastCall = "add"
  /\ stops = 1
  /\ Len(sources) = 2
  /\ sources[2].stops = 1
  /\ sources[2].at <= sources[2].sub + CallSpan
  /\ sources[2].start = sources[2].cursor
  /\ sources[2].start > sources[2].sub + Ms(InitialBufferMs)

\* C13: every addPCM16 call runs a scheduling pass before it returns, also on
\* a playing streamer: when the call returns, no queued segment is left that
\* fits the lookahead window.
C13_PassOnEverySubmit ==
  [][Len(chunks') = Len(chunks) + 1 =>
       ~(Len(audioQueue') > 0 /\ WindowOpen(scheduledSec', Sec(now')))
    ]_vars

\* C14 as stated: a segment is scheduled only while scheduledTime <
\* currentTime + 200 ms (the comparison the code makes, on its doubles), so
\* the cursor is never more than 200 ms plus one segment (7680 samples) ahead
\* of the clock, and a scheduling pass that ends with a non-empty queue (it
\* arms a deferred timeout) ends with scheduledTime >= currentTime + 200 ms.
C14_EndsBeyondWindow ==
  [][/\ \A i \in (Len(sources) + 1)..Len(sources') :
          BigLess(sources'[i].csec,
                  Plus(Sec(sources'[i].at), Sec(SCHEDULE_AHEAD_TIME)))
     /\ scheduledTime' - now' <= Ms(ScheduleAheadMs) + bufferSize
     /\ (timeouts' # timeouts /\ Len(audioQueue') > 0) =>
          ~BigLess(scheduledSec', Plus(Sec(now'), Sec(SCHEDULE_AHEAD_TIME)))
    ]_vars

\* C14 as amended: a segment is scheduled only while scheduledTime <
\* currentTime + 200 ms, so the cursor is never more than 200 ms plus one
\* segment ahead of the clock; a scheduling pass that ends with a non-empty
\* queue has found scheduledTime >= currentTime + 200 ms in the test that
\* ended its loop, so with the clock as it was when the pass began, and ends
\* with scheduledTime no more than the time the pass took below currentTime
\* + 200 ms.
C14_BoundedLookahead ==
  [][/\ \A i \in (Len(sources) + 1)..Len(sources') :
          BigLess(sources'[i].csec,
                  Plus(Sec(sources'[i].at), Sec(SCHEDULE_AHEAD_TIME)))
     /\ scheduledTime' - now' <= Ms(ScheduleAheadMs) + bufferSize
     /\ (timeouts' # timeouts /\ Len(audioQueue') > 0) =>
          /\ ~BigLess(scheduledSec', Plus(Sec(now), Sec(SCHEDULE_AHEAD_TIME)))
          /\ scheduledTime' >= now' + Ms(ScheduleAheadMs) - (now' - now)
    ]_vars

\* A pass has found the window closed with a segment left in the queue, and
\* the clock has moved on before it ended: the cursor is less than 200 ms
\* ahead of the clock.
C14_Witness ==
  /\ Len(audioQueue) > 0
  /\ Len(sources) > 0
  /\ timeouts # EmptyBag
  /\ scheduledTime < now + Ms(ScheduleAheadMs)
  /\ scheduledTime >= now + Ms(ScheduleAheadMs) - CallSpan

\* C15: at most one deferred re-invocation of the scheduling pass is pending.
C15_SingleDeferred == BagCardinality(timeouts) <= 1

\* Some timer is armed that re-invokes the scheduling pass.
TimerArmed == checkInterval \/ timeouts # EmptyBag

\* C16: while the streamer is playing and not complete, or segments are
\* queued, the polling interval or a deferred timeout is armed to run the
\* scheduling pass again; and no segment leaves the queue unscheduled while
\* stop() has not been called.
C16_QueueDrains ==
  /\ (Len(audioQueue) > 0 \/ (isPlaying /\ ~isStreamComplete)) => TimerArmed
  /\ stops = 0 => TotalLen(Scheduled \o Queued) = submitted

\* The steps in which a resume() completes: the call on a context whose state
\* reads "running", the continuations after the await on a suspended one.
ResumeCompletes ==
  \/ resumes' = resumes + 1 /\ context.state = "running"
  \/ context'.resuming < context.resuming

\* What resume() leaves as it was.
ResumeFrame ==
  <<audioQueue, isPlaying, checkInterval, intervalDue, timeouts, gainTimers, sources>>

\* C17 as stated: when resume() completes it has cleared isStreamComplete,
\* scheduledTime equals currentTime + 100 ms and the gain is 1; it leaves
\* audioQueue, isPlaying and the armed timers as they were and schedules no
\* segment.
C17_CursorAtCompletion ==
  [][ResumeCompletes =>
       /\ ~isStreamComplete'
       /\ scheduledTime' = now' + Ms(InitialBufferMs)
       /\ GainValue(gainEvents', now') = GainOne
       /\ UNCHANGED ResumeFrame
    ]_vars

\* C17 as amended: when resume() completes it has cleared isStreamComplete,
\* set scheduledTime to currentTime + 100 ms with currentTime as line 581
\* read it (no earlier than the clock when the step began, no later than the
\* clock at completion) and the gain to 1 at the clock value line 582 read,
\* the clock at completion; it leaves audioQueue, isPlaying and the armed
\* timers as they were and schedules no segment, and a call that has to wait
\* for the context changes none of them before it completes.
C17_ResumeFrame ==
  [][/\ ResumeCompletes =>
          /\ ~isStreamComplete'
          /\ scheduledTime' - Ms(InitialBufferMs) \in now..now'
          /\ scheduledSec' = Plus(Sec(scheduledTime' - Ms(InitialBufferMs)),
                                  Sec(initialBufferTime))
          /\ GainValue(gainEvents', now') = GainOne
          /\ gainEvents' # gainEvents
          /\ UNCHANGED ResumeFrame
     /\ (resumes' = resumes + 1 /\ context.state = "suspended") =>
          UNCHANGED <<isStreamComplete, scheduledTime, scheduledSec, gainEvents, ResumeFrame>>
    ]_vars

\* resume() was called on a suspended context after a stop() of a stream with
\* scheduled segments, and has completed with the clock moving on between
\* its two reads: the context runs again and the cursor is less than one
\* initial buffer time ahead of the clock.
C17_Witness ==
  /\ lastCall = "resume"
  /\ context.suspends > 0
  /\ context.state = "running"
  /\ context.resuming = 0
  /\ stops > 0
  /\ Len(sources) > 0
  /\ ~isStreamComplete
  /\ scheduledTime < now + Ms(InitialBufferMs)
  /\ \E i \in 1..Len(gainEvents) : gainEvents[i] = SetValue(GainOne, now, now)

\* C18: a failure of the output device while a segment is created never
\* leaves addPCM16 or a timer callback as an exception.
C18_NoExceptionEscapes == uncaught = 0

\* The segments a step has pushed on audioQueue.
Pushed == SubSeq(enqueued', Len(enqueued) + 1, Len(enqueued'))

RECURSIVE Sum(_)
Sum(seq) == IF Len(seq) = 0 THEN 0 ELSE Head(seq) + Sum(Tail(seq))

\* C19: addPCM16 with a chunk of odd length n, or with an empty chunk, does
\* not throw and enqueues n \div 2 samples, no segment at all when that is 0;
\* on a playing stream the segments already queued and the cursor stay as they
\* were.
C19_MalformedTolerated ==
  [][Len(bytesIn') = Len(bytesIn) + 1 =>
       LET n == bytesIn'[Len(bytesIn')]
       IN (n % 2 = 1 \/ n = 0) =>
            /\ uncaught' = uncaught
            /\ Sum(Pushed) = n \div 2
            /\ submitted' = submitted + n \div 2
            /\ n \div 2 = 0 => enqueued' = enqueued
            /\ isPlaying =>
                 /\ scheduledTime' = scheduledTime
                 /\ Len(audioQueue') = Len(audioQueue) + Len(Pushed)
                 /\ SubSeq(audioQueue', 1, Len(audioQueue)) = audioQueue
    ]_vars

\* A chunk of odd length was submitted to a stream that was playing, after
\* a callback of its timers had run, and its segments wait in the queue
\* behind the cursor left by that stream.
C19_Witness ==
  /\ Len(bytesIn) = 2
  /\ bytesIn[2] % 2 = 1
  /\ chunks[2] > bufferSize
  /\ Len(sources) = 1
  /\ Len(audioQueue) = 2
  /\ audioQueue[1].sub >= Step
  /\ scheduledTime = sources[1].stop

\* C20: a 16-bit value normalized by 32768 and quantized back by 32768 is
\* within 1 of the value it started as, at the two extremes as well.
C20_RoundTrip ==
  conv.stage = "back" =>
    /\ conv.back - conv.v <= 1
    /\ conv.v - conv.back <= 1

\* The two extremes have gone through both conversions.
C20_WitnessLow == conv.stage = "back" /\ conv.v = -Int16Scale

C20_Witness == conv.stage = "back" /\ conv.v = Int16Scale - 1

\* Every chunk submitted so far is one full segment, all of them were
\* submitted before the first segment started, and stop() and resume() were
\* never called.
BackToBack ==
  /\ stops = 0
  /\ resumes = 0
  /\ Len(chunks) > 0
  /\ \A i \in 1..Len(chunks) : chunks[i] = bufferSize
  /\ \A i \in 1..Len(sources) : sources[i].sub < sources[1].start
  /\ \A i \in 1..Len(audioQueue) : audioQueue[i].sub < sources[1].start

\* C21: k chunks of exactly 15360 bytes submitted back to back to an idle
\* streamer give k segments of 7680 samples each, scheduled or still queued;
\* the first starts 100 ms after the submission (after the clock value line
\* 460 read in that call) and each one after it starts exactly where the one
\* before it ends. No segment enqueued is empty or longer than 7680 samples.
C21_BackToBack ==
  /\ \A i \in 1..Len(enqueued) : enqueued[i] \in 1..bufferSize
  /\ BackToBack =>
       /\ Len(sources) > 0
       /\ Len(sources) + Len(audioQueue) = Len(chunks)
       /\ \A i \in 1..Len(sources) : sources[i].len = bufferSize
       /\ \A i \in 1..Len(audioQueue) : audioQueue[i].len = bufferSize
       /\ sources[1].start = sources[1].cursor
       /\ sources[1].start - Ms(InitialBufferMs) \in sources[1].sub..sources[1].at
       /\ \A i \in 1..(Len(sources) - 1) : sources[i + 1].start = sources[i].stop

\* C22: a segment scheduled after the latest stop() is, for as long as it
\* plays, connected to the gain node in use, and that node is at full volume.
C22_NextStreamAudible ==
  \A i \in 1..Len(sources) :
    (/\ stops > 0
     /\ sources[i].stops = stops
     /\ sources[i].start <= now
     /\ now < sources[i].stop)
      => /\ sources[i].gain = gainNode
         /\ GainValue(gainEvents, now) = GainOne

\* The handlers among the first n registered that were registered for the
\* name on context c, in registration order.
RECURSIVE HandlersOf(_, _, _)
HandlersOf(c, name, n) ==
  IF n = 0 THEN <<>>
  ELSE HandlersOf(c, name, n - 1)
         \o (IF taps[n].ctx = c /\ taps[n].name = name THEN <<n>> ELSE <<>>)

\* The worklet nodes of a name on context c: created, or about to be when
\* the module is loaded.
NodesOf(c, name) ==
  registeredWorklets[c][name].made + CopiesIn([ctx |-> c, name |-> name], loading)

\* C23: however many times addWorklet is called with one name on one audio
\* context, also while the module of the first call is loading, the name has
\* exactly one worklet node, the record keeps every handler in registration
\* order, and a message of the node is delivered to every handler registered
\* by then.
C23_TapFanOut ==
  /\ \A c \in {ContextOf(s) : s \in Streamers}, name \in Names :
       /\ registeredWorklets[c][name].handlers = HandlersOf(c, name, Len(taps))
       /\ NodesOf(c, name) = (IF HandlersOf(c, name, Len(taps)) = <<>> THEN 0 ELSE 1)
       /\ registeredWorklets[c][name].node <=> registeredWorklets[c][name].made = 1
  /\ \A k \in 1..Len(delivered) :
       delivered[k].handlers =
         HandlersOf(tapSources[delivered[k].source].ctx, delivered[k].name,
                    delivered[k].registered)

\* A message was delivered to two handlers of one name, the second of them
\* registered while the module of the first was loading.
C23_Witness ==
  \E k \in 1..Len(delivered) :
    /\ Len(delivered[k].handlers) = 2
    /\ taps[delivered[k].handlers[2]].joined

\* C27: the registry is keyed by the audio context: of the handlers
\* registered under a name by the time a node posts a message about a
\* segment, the message reaches exactly those registered on the context of
\* the streamer that scheduled the segment, whichever streamer of that
\* context registered them, and none registered on another context.
C27_KeyedByContext ==
  \A k \in 1..Len(delivered) :
    LET d == delivered[k]
        got == {d.handlers[j] : j \in 1..Len(d.handlers)}
    IN \A h \in 1..d.registered :
         taps[h].name = d.name =>
           (h \in got <=> ContextOf(taps[h].streamer)
                            = ContextOf(tapSources[d.source].streamer))

\* A message about a segment of one streamer reached a handler registered by
\* another streamer of the same context, while a handler of the same name on
\* another context did not get it.
C27_Witness ==
  \E k \in 1..Len(delivered) :
    LET d == delivered[k]
        got == {d.handlers[j] : j \in 1..Len(d.handlers)}
    IN /\ \E h \in got : taps[h].streamer # tapSources[d.source].streamer
       /\ \E h \in 1..d.registered :
            /\ taps[h].name = d.name
            /\ ContextOf(taps[h].streamer) # ContextOf(tapSources[d.source].streamer)
            /\ h \notin got

\* C24: with no stop() or resume() in between, the cursor a scheduling pass
\* reads for a segment is never earlier than the cursor left by a segment
\* scheduled before it, which is that segment's end: scheduledTime does not
\* decrease, and a stream started after a natural end does not put the cursor
\* before the end of a segment already scheduled.
C24_MonotonicCursor ==
  \A i, j \in 1..Len(sources) :
    (/\ i < j
     /\ sources[i].stops = sources[j].stops
     /\ sources[i].resumes = sources[j].resumes)
      => sources[j].cursor >= sources[i].stop

\* C25: onComplete is invoked at most once per stream, a stream being what
\* lies between an addPCM16 that starts playback and the next such addPCM16.
\* (Two calls of complete() by the caller are not counted against the claim.)
C25_OneCompletionPerStream ==
  \A i, j \in 1..Len(completions) :
    (/\ i < j
     /\ completions[i].stream > 0
     /\ ~(completions[i].via = "complete" /\ completions[j].via = "complete"))
      => completions[i].stream # completions[j].stream

\* C26: the ended handler of a segment scheduled before a stop() never
\* invokes onComplete after that stop().
C26_NoCompletionAfterStop ==
  \A k \in 1..Len(completions) :
    completions[k].via = "ended"
      => sources[completions[k].src].stops = completions[k].stops

\* The step is a call of the client's method `call`.
WsCall(call) ==
  /\ Len(wsCalls') = Len(wsCalls) + 1
  /\ wsCalls'[Len(wsCalls')].call = call

\* C28: connect() called while the status is 'connected' or 'connecting'
\* returns false and leaves the socket, its handlers, the status and the
\* stored model and config as they were; no second socket is opened.
C28_ConnectRefused ==
  [][(WsCall("connect") /\ wsStatus \in {"connected", "connecting"}) =>
       /\ wsCalls'[Len(wsCalls')].returned = "false"
       /\ ws' = ws
       /\ sockets' = sockets
       /\ wsStatus' = wsStatus
       /\ wsModel' = wsModel
    ]_vars

\* connect() was refused once while connecting and once while connected, and
\* the client still has the one socket of the first call.
C28_Witness ==
  /\ Len(wsCalls) = 3
  /\ wsCalls[2].returned = "false"
  /\ wsCalls[3].returned = "false"
  /\ wsStatus = "connected"
  /\ Len(sockets) = 1
  /\ ws = 1
  /\ wsModel = 1

\* C29: when disconnect() returns the status is 'disconnected' and no socket
\* is held, and no 'open', 'close', 'error', 'audio', 'content' or
\* 'interrupted' event is ever emitted from a socket after disconnect() has
\* dropped it.
C29_DisconnectIsFinal ==
  [][/\ WsCall("disconnect") => (wsStatus' = "disconnected" /\ ws' = 0)
     /\ \A i \in 1..Len(emitted') :
          emitted'[i].event \in {"open", "close", "error", "audio", "content", "interrupted"}
            => ~emitted'[i].dropped
    ]_vars

\* C30: once connect() has created a new socket, an open, close or error
\* event of an earlier socket changes neither _status nor ws.
C30_StaleSocketIgnored ==
  [][(/\ wsCalls' = wsCalls
      /\ ws # 0
      /\ \E k \in 1..Len(sockets) : k # ws /\ sockets'[k] # sockets[k])
       => (wsStatus' = wsStatus /\ ws' = ws)
    ]_vars

\* C31: the promise of every connect() settles: once a socket has had its
\* close event, after which it fires no further event, its promise is resolved
\* or rejected; and the status is not 'connecting' when the current socket has
\* opened, failed or closed.
C31_PromiseSettles ==
  /\ \A k \in 1..Len(sockets) :
       sockets[k].state = "closed" => sockets[k].promise # "pending"
  /\ (wsStatus = "connecting" /\ ws # 0) => sockets[ws].state = "connecting"

\* A handleStop callback that stop() left with the promise of start number t
\* runs in this step.
DeferredStopRuns(t) ==
  /\ recorder.jobs # <<>>
  /\ recorder.jobs[1] = t
  /\ recorder'.jobs = Tail(recorder.jobs)

\* C32: a stop() called while a start() is pending is deferred, not lost:
\* once that start has finished and the deferred handleStop runs, the source
\* is disconnected, every track of the media stream the start acquired is
\* stopped, and stream, recordingWorklet and vuWorklet are cleared.
C32_DeferredStop ==
  [][\A t \in 1..Len(recorder.tasks) :
       DeferredStopRuns(t)
         => /\ recorder'.stream = 0
            /\ ~recorder'.recordingWorklet
            /\ ~recorder'.vuWorklet
            /\ ~recorder'.srcs[recorder'.source].connected
            /\ \A m \in 1..Len(recorder'.media) :
                 recorder'.media[m].by = t => recorder'.media[m].stopped
    ]_vars

\* C33: when the last call was stop() and every start has run to its end, so
\* that nothing more will happen unless the recorder is called again, every
\* media stream the recorder acquired has its tracks stopped.
C33_NoMicrophoneLeak ==
  (/\ Len(recorder.calls) > 0
   /\ recorder.calls[Len(recorder.calls)] = "stop"
   /\ \A t \in 1..Len(recorder.tasks) : recorder.tasks[t].pc \in {"resolved", "threw"}
   /\ recorder.jobs = <<>>)
    => \A m \in 1..Len(recorder.media) : recorder.media[m].stopped

\* C34: whenever a sox process started by startRecording() is still running,
\* isRecording is true and recordProcess refers to that process: the exit or
\* error callback of an earlier process has not reset the state of the later
\* recording.
C34_RunningIsRecording ==
  \A k \in 1..Len(ptt.procs) :
    ptt.procs[k] = "running" => (ptt.isRecording /\ ptt.recordProcess = k)

\* C35: at most one next-ping work item is pending at any time, and every
\* ping buffer was scheduled while isPlayingPing was true.
C35_SinglePingChain ==
  /\ Cardinality({i \in 1..Len(ping.items) : ping.items[i] = "pending"}) <= 1
  /\ \A b \in 1..Len(ping.buffers) : ping.buffers[b].playing

\* C36: for every maxLogs >= 1, a log() whose type and message are those of
\* the last entry replaces that entry and leaves the length of logs as it
\* was; any other log() appends its entry after the newest of the entries
\* kept, and logs then holds at most maxLogs entries.
C36_BoundedLogs ==
  [][logger'.logged = logger.logged + 1 =>
       LET logs == logger.logs
           new == logger'.logs[Len(logger'.logs)]
           same == /\ Len(logs) > 0
                   /\ logs[Len(logs)].type = new.type
                   /\ logs[Len(logs)].message = new.message
       IN IF same
            THEN /\ Len(logger'.logs) = Len(logs)
                 /\ SubSeq(logger'.logs, 1, Len(logs) - 1) = SubSeq(logs, 1, Len(logs) - 1)
            ELSE /\ Len(logger'.logs) <= logger.maxLogs
                 /\ \E k \in 0..Len(logs) :
                      SubSeq(logger'.logs, 1, Len(logger'.logs) - 1)
                        = SubSeq(logs, k + 1, Len(logs))
    ]_vars

\* C37: between calls of process() bufferWriteIndex is in [0, 2047]; one chunk
\* has been posted for every 2048 samples given, every chunk holds 2048
\* samples, and the chunks posted, one after the other, are the first 2048 * k
\* converted samples in input order.
C37_ChunkBuffering ==
  /\ worklet.bufferWriteIndex \in 0..(BufferLength - 1)
  /\ Len(worklet.posted) = Len(worklet.fed) \div BufferLength
  /\ worklet.bufferWriteIndex = Len(worklet.fed) % BufferLength
  /\ \A c \in 1..Len(worklet.posted) :
       /\ Len(worklet.posted[c]) = BufferLength
       /\ \A i \in 1..Len(worklet.posted[c]) :
            worklet.posted[c][i] = Requantize(worklet.fed[(c - 1) * BufferLength + i])

\* Two chunks posted, the second one filled in the middle of a call.
C37_Witness ==
  /\ Len(worklet.posted) = 2
  /\ worklet.bufferWriteIndex = 952
  /\ worklet.posted[1][1] = -Int16Scale

====
